---- MODULE Spec2Model ----
(***************************************************************************)
(* Model of the glucose-analysis pipeline of the GlucoAudio application:   *)
(* the /api/v1/analyze handler, PortiaService.run_glucose_analysis_sync    *)
(* and its five stages, and the stand-alone inference and voice-synthesis  *)
(* agents (ClaudeInferenceAgent, AnthropicService, VoiceSynthesisAgent).   *)
(*                                                                         *)
(* Conventions of the encoding                                             *)
(*  - a Python dict is a function whose DOMAIN is the set of keys present; *)
(*  - a JSON value that is not an object is a record with the single key   *)
(*    json_type ("null", "list");                                          *)
(*  - Python None for a string-valued result is the string "None";         *)
(*  - a score in [0,1] is kept in hundredths (0.3 is 30, 0.75 is 75);      *)
(*  - a function that can raise returns [raised, value].                   *)
(***************************************************************************)
EXTENDS Integers, Sequences, FiniteSets, TLC

VARIABLES
    \* ---- stand-alone agents (one call per behaviour) ----
    a_in,        \* the arguments and the collaborators' behaviour for the call
    a_op,        \* which function has been called ("none" before the call)
    a_out,       \* what the call returned
    a_calls,     \* number of requests made to the reasoning service
    \* ---- POST /api/v1/analyze and the pipeline run it starts ----
    pc,                  \* position of the handler / of the run
    session,             \* the Flask session of the client
    user_id,             \* request.form user_id, else the session's
    user_context,        \* the dict built by the handler, enriched by the Infer stage
    session_id,          \* the uuid generated by the handler
    processed_audio,     \* output of stage 1
    embeddings,          \* output of stage 2
    prediction,          \* output of stage 3
    voice_response,      \* output of stage 4
    store_result,        \* output of stage 5
    result,              \* what run_glucose_analysis_sync returned
    response,            \* the HTTP response of the handler
    stages,              \* the stages invoked by the run, in order
    faults,              \* which collaborators failed during the request
    \* ---- database tables and id generation ----
    user_contexts,       \* rows in insertion order
    voice_sessions,      \* rows in insertion order
    glucose_predictions, \* rows in insertion order
    next_uuid,           \* ids are handed out in increasing order
    \* ---- requests to the voice-synthesis service ----
    tts_voice,           \* voice id in the URL of the last text-to-speech request
    \* ---- the shared EmbeddingAgent and the threads calling extract_embeddings ----
    model,               \* self.model
    processor,           \* self.processor
    loads,               \* how many times _load_model loaded the model and its processor
    reassigned,          \* model or processor was written while both were set
    callers,             \* the threads that call the extractor in this behaviour
    ex,                  \* per thread: position in the call, its outcome so far
    \* ---- concurrent requests served by the module-level PortiaService ----
    runs,                \* per request: its locals, and what its collaborators answer
    \* ---- the account routes /auth/... and UserService ----
    users,               \* rows of the users table, in insertion order
    profiles,            \* rows of the profiles table, in insertion order
    flask,               \* per browser: its Flask session
    call,                \* per browser: the request being served, its position, its result
    past,                \* what the completed requests returned, how many were made
    bcrypt_build,        \* which bcrypt is installed: it truncates or rejects long passwords
    \* ---- one browser using /analyze, /results and /new-analysis ----
    computed,            \* session id -> requester and assessment of the analysis that returned it
    requests             \* number of requests the browser has made

a_vars == <<a_in, a_op, a_out, a_calls>>
db_vars == <<user_contexts, voice_sessions, glucose_predictions, next_uuid>>
run_vars ==
    <<user_id, user_context, session_id, processed_audio, embeddings, prediction,
      voice_response, store_result, result, stages, faults>>
p_vars == <<pc, session, response, run_vars, db_vars>>
e_vars == <<model, processor, loads, reassigned, callers, ex>>
\* the components outside the request pipeline and the single agent calls
auth_vars == <<users, profiles, flask, call, past, bcrypt_build>>
w_vars == <<auth_vars, computed, requests>>
x_vars == <<e_vars, runs, w_vars>>
vars == <<a_vars, p_vars, tts_voice, x_vars>>

\* ------------------------------------------------------------------ bounds
\* longest service response text, in lexemes
MaxLen == 5
\* longest symptom list given to analyze_symptom_constellation
MaxSymptoms == 3
\* calls of extract_embeddings made by one thread
MaxCalls == 2
\* requests made to the account routes, over both browsers
MaxRequests == 3
\* requests made by the browser that analyses and reads results
MaxSteps == 4

\* ------------------------------------------------------------ JSON values
Restrict(f, K) == [k \in K |-> f[k]]
EmptyDict == [k \in {} |-> 0]
JsonNull == [json_type |-> "null"]
JsonList == [json_type |-> "list"]
IsDict(v) == "json_type" \notin DOMAIN v
\* Python truthiness of a JSON value: None and empty containers are falsy
Truthy(v) == IF IsDict(v) THEN DOMAIN v # {} ELSE v.json_type # "null"
\* dict.get(key, default)
Get(d, k, default) == IF k \in DOMAIN d THEN d[k] ELSE default
\* d[k] = v
Put(d, k, v) == [x \in DOMAIN d \cup {k} |-> IF x = k THEN v ELSE d[x]]

\* a confidence_score the service sent as a JSON string ("high")
NonNumeric == 0 - 1

Sections == {"glucose_assessment", "analysis_details", "clinical_insights", "limitations"}
GaKeys == {"primary_estimate", "estimated_range", "confidence_score", "risk_level"}

\* the glucose_assessment objects a service response may carry
GaFull ==
    [primary_estimate: {"elevated"}, estimated_range: {"140-180 mg/dL"},
     confidence_score: {90, NonNumeric}, risk_level: {"critical"}]
GaValues == {Restrict(f, K) : f \in GaFull, K \in SUBSET GaKeys} \cup {JsonNull}
AdValues == {[quality_factors |-> "clear recording"]}
CiValues == {[immediate_recommendations |-> "Test your blood sugar now"], JsonNull}
LimValues == {[confidence_factors |-> "short sample"]}

ObjFull ==
    [glucose_assessment: GaValues, analysis_details: AdValues,
     clinical_insights: CiValues, limitations: LimValues]
\* the JSON objects a service response may carry
Objects == {Restrict(f, K) : f \in ObjFull, K \in SUBSET Sections}

\* ------------------------------------------------- service response text
(* A response text is a sequence of lexemes: "{" and "}" are the brace       *)
(* characters, "x" is a word without braces that is not JSON, and "b" is the *)
(* text of a member list ("key": value, ...) whose value is given by `body`. *)
(* A member list may itself contain braces, so it only occurs between an     *)
(* opening and a closing brace lexeme.                                       *)
Lexemes == {"x", "{", "}", "b"}
Enclosed(t) ==
    \A i \in 1..Len(t) :
        t[i] = "b" => (\E j \in 1..(i - 1) : t[j] = "{") /\ (\E j \in (i + 1)..Len(t) : t[j] = "}")
Texts == {t \in UNION {[1..n -> Lexemes] : n \in 0..MaxLen} : Enclosed(t)}
Bodies == {[valid |-> TRUE, obj |-> o] : o \in Objects} \cup {[valid |-> FALSE, obj |-> EmptyDict]}

Min(S) == CHOOSE m \in S : \A n \in S : m <= n
Max(S) == CHOOSE m \in S : \A n \in S : n <= m
\* str.find / str.rfind: 0-based index, -1 when absent
find(t, c) == LET S == {i \in 1..Len(t) : t[i] = c} IN IF S = {} THEN 0 - 1 ELSE Min(S) - 1
rfind(t, c) == LET S == {i \in 1..Len(t) : t[i] = c} IN IF S = {} THEN 0 - 1 ELSE Max(S) - 1
\* t[a:b]
Slice(t, a, b) == SubSeq(t, a + 1, b)

\* json.loads of a slice: an object only for "{}" and for "{" members "}"
json_loads(s, body) ==
    IF s = <<"{", "}">> THEN [raised |-> FALSE, value |-> EmptyDict]
    ELSE IF s = <<"{", "b", "}">> /\ body.valid THEN [raised |-> FALSE, value |-> body.obj]
    ELSE [raised |-> TRUE, value |-> EmptyDict]

\* an optional text: Python None or a str
PyNone == [none |-> TRUE, text |-> <<>>]
Str(t) == [none |-> FALSE, text |-> t]

\* ------------------------------------------------------ ClaudeInferenceAgent
AgentFallback ==
    [glucose_assessment |->
        [primary_estimate |-> "normal", estimated_range |-> "80-120 mg/dL",
         confidence_score |-> 30, risk_level |-> "minimal"],
     analysis_details |->
        [voice_biomarkers_detected |-> <<"baseline vocal patterns">>,
         supporting_context |-> "Limited analysis due to API error",
         conflicting_signals |-> "Unable to process voice data completely",
         quality_factors |-> "Analysis compromised due to technical issues"],
     clinical_insights |->
        [immediate_recommendations |-> "Please try again or use traditional glucose monitoring",
         monitoring_suggestions |-> "Continue with your regular monitoring schedule",
         medical_consultation |-> "Follow your healthcare provider's advice"],
     limitations |->
        [confidence_factors |-> "Technical error in processing",
         disclaimer |-> "This is an experimental technology and should not replace traditional glucose monitoring"]]

\* the loop over required_sections
FillSections(resp) ==
    [k \in DOMAIN resp \cup Sections |-> IF k \in DOMAIN resp THEN resp[k] ELSE EmptyDict]

\* the defaults written into glucose_assessment
FillEstimate(ga) ==
    LET g1 == IF "primary_estimate" \notin DOMAIN ga THEN Put(ga, "primary_estimate", "normal") ELSE ga
    IN  IF "confidence_score" \notin DOMAIN g1 THEN Put(g1, "confidence_score", 50) ELSE g1

\* a validation that fills the estimate defaults but inserts no missing section
_validate_response_no_sections(resp) ==
    IF "glucose_assessment" \notin DOMAIN resp THEN [raised |-> FALSE, value |-> resp]
    ELSE IF ~IsDict(resp["glucose_assessment"]) THEN [raised |-> TRUE, value |-> resp]
    ELSE [raised |-> FALSE,
          value |-> Put(resp, "glucose_assessment", FillEstimate(resp["glucose_assessment"]))]

\* `x in None` and item assignment on a non-dict raise TypeError
_validate_response(resp) ==
    LET r1 == FillSections(resp)
        ga == r1["glucose_assessment"]
    IN  IF ~IsDict(ga) THEN [raised |-> TRUE, value |-> r1]
        ELSE [raised |-> FALSE, value |-> Put(r1, "glucose_assessment", FillEstimate(ga))]

parse_response(claude_response, body) ==
    IF claude_response.none \/ claude_response.text = <<>> THEN AgentFallback
    ELSE
        LET t == claude_response.text
            json_start == find(t, "{")
            json_end == rfind(t, "}") + 1
        IN  IF json_start >= 0 /\ json_end > json_start
            THEN LET parsed == json_loads(Slice(t, json_start, json_end), body)
                 IN  IF parsed.raised THEN AgentFallback
                     ELSE LET v == _validate_response(parsed.value)
                          IN  IF v.raised THEN AgentFallback ELSE v.value
            ELSE AgentFallback

\* ------------------------------------------------------------ AnthropicService
\* client.messages.create: the service raises or answers with a text
generate_message(svc) == IF svc.raises THEN PyNone ELSE Str(svc.text)

\* `await` of a value that is not awaitable (a str, None) raises TypeError
Awaitable(v) == FALSE

call_claude(svc) ==
    LET r == generate_message(svc)
    IN  IF Awaitable(r) THEN r ELSE PyNone

\* not embeddings: None or an empty list
EmbFalsy(e) == e.is_none \/ e.len = 0

\* an input check that looks at the embeddings only
analyze_glucose_embeddings_only(emb, ctx, svc) ==
    IF EmbFalsy(emb)
    THEN [out |-> [error |-> "Missing embeddings or user context",
                   glucose_prediction |-> AgentFallback],
          calls |-> 0]
    ELSE LET claude_response == call_claude(svc)
         IN  [out |-> [glucose_prediction |-> parse_response(claude_response, svc.body),
                       raw_claude_response |-> claude_response],
              calls |-> 1]

analyze_glucose(emb, ctx, svc) ==
    IF EmbFalsy(emb) \/ ~Truthy(ctx)
    THEN [out |-> [error |-> "Missing embeddings or user context",
                   glucose_prediction |-> AgentFallback],
          calls |-> 0]
    ELSE LET claude_response == call_claude(svc)
         IN  [out |-> [glucose_prediction |-> parse_response(claude_response, svc.body),
                       raw_claude_response |-> claude_response],
              calls |-> 1]

ServiceFallback ==
    [glucose_assessment |->
        [primary_estimate |-> "normal", estimated_range |-> "80-120 mg/dL",
         confidence_score |-> 75, risk_level |-> "minimal"],
     analysis_details |->
        [voice_biomarkers_detected |->
            <<"baseline vocal patterns", "normal formant frequency distribution",
              "stable harmonic-to-noise ratio">>,
         supporting_context |-> "The conversation indicates no significant health concerns that would suggest abnormal glucose levels.",
         conflicting_signals |-> "None detected in the available data.",
         quality_factors |-> "Audio quality sufficient for basic analysis."],
     clinical_insights |->
        [immediate_recommendations |-> "Continue with your normal routine. No immediate action required based on this assessment.",
         monitoring_suggestions |-> "Regular self-monitoring is recommended as this technology is still experimental.",
         medical_consultation |-> "No urgent consultation needed based on this assessment."],
     limitations |->
        [confidence_factors |-> "This is a fallback response due to technical issues with the analysis system.",
         disclaimer |-> "This is an experimental technology and should not replace traditional glucose monitoring or medical advice."]]

\* returns [none, value]: the parsed object, or None when there is no JSON or on any error
generate_structured_output(svc) ==
    IF svc.raises THEN [none |-> TRUE, value |-> EmptyDict]
    ELSE
        LET text_response == svc.text
            json_start == find(text_response, "{")
            json_end == rfind(text_response, "}") + 1
        IN  IF json_start >= 0 /\ json_end > json_start
            THEN LET parsed == json_loads(Slice(text_response, json_start, json_end), svc.body)
                 IN  IF parsed.raised THEN [none |-> TRUE, value |-> EmptyDict]
                     ELSE [none |-> FALSE, value |-> parsed.value]
            ELSE [none |-> TRUE, value |-> EmptyDict]

\* `if not result`: None and the empty dict are replaced by the fallback
analyze_voice_data(svc) ==
    LET res == generate_structured_output(svc)
    IN  IF res.none \/ ~Truthy(res.value) THEN ServiceFallback ELSE res.value

\* -------------------------------------------------------- ElevenLabsService
NONE == "None"
\* requests.post: answers 200, answers an error status, or raises; all handled inside
TtsOutcomes == {"ok", "http_error", "exception"}
text_to_speech(tts) ==
    [raised |-> FALSE, value |-> IF tts = "ok" THEN "/tmp/voice_response.mp3" ELSE NONE]

\* ------------------------------------------------------ VoiceSynthesisAgent
voice_ids ==
    [serious_medical_voice |-> "21m00Tcm4TlvDq8ikWAM",
     confident_assistant |-> "D38z5RcWu1voky8WS1ja",
     cautious_assistant |-> "pNInz6obpgDQGcFmaJgB"]

ConfidentThreshold == 70

FallbackScript ==
    [script |-> [template |-> "fallback"],
     voice_config |-> [voice_id |-> voice_ids.cautious_assistant, stability |-> 60, clarity |-> 70]]

(* The try block of create_voice_script raises (and the fallback script is   *)
(* returned) when a subscripted key is missing, when glucose_assessment,     *)
(* clinical_insights or limitations is not a dict where it is used, and when *)
(* confidence_score is not a number (comparison with 0.7, format ':.0f').    *)
create_voice_script(claude_output) ==
    IF "glucose_assessment" \notin DOMAIN claude_output THEN FallbackScript
    ELSE LET ga == claude_output["glucose_assessment"]
    IN  IF ~IsDict(ga) \/ ~({"confidence_score", "risk_level", "primary_estimate"} \subseteq DOMAIN ga)
        THEN FallbackScript
        ELSE
        LET confidence == ga["confidence_score"]
            risk_level == ga["risk_level"]
            estimate == ga["primary_estimate"]
        IN  IF risk_level \in {"high", "critical"}
            THEN IF confidence = NonNumeric \/ "clinical_insights" \notin DOMAIN claude_output
                    \/ ~IsDict(claude_output["clinical_insights"])
                 THEN FallbackScript
                 ELSE [script |->
                          [template |-> "serious", risk_level |-> risk_level, estimate |-> estimate,
                           confidence |-> confidence,
                           recommendations |->
                               Get(claude_output["clinical_insights"], "immediate_recommendations",
                                   "Please monitor your glucose levels.")],
                       voice_config |->
                          [voice_id |-> voice_ids.serious_medical_voice, stability |-> 80, clarity |-> 90]]
            ELSE IF confidence = NonNumeric THEN FallbackScript
            ELSE IF confidence > ConfidentThreshold
            THEN IF "clinical_insights" \notin DOMAIN claude_output
                    \/ ~IsDict(claude_output["clinical_insights"])
                 THEN FallbackScript
                 ELSE [script |->
                          [template |-> "confident", estimate |-> estimate, confidence |-> confidence,
                           recommendations |->
                               Get(claude_output["clinical_insights"], "immediate_recommendations",
                                   "Continue monitoring your glucose levels."),
                           monitoring |->
                               Get(claude_output["clinical_insights"], "monitoring_suggestions",
                                   "Pay attention to any changes in how you feel.")],
                       voice_config |->
                          [voice_id |-> voice_ids.confident_assistant, stability |-> 70, clarity |-> 80]]
            ELSE IF "limitations" \notin DOMAIN claude_output \/ ~IsDict(claude_output["limitations"])
                 THEN FallbackScript
                 ELSE [script |->
                          [template |-> "cautious", estimate |-> estimate, confidence |-> confidence,
                           factors |->
                               Get(claude_output["limitations"], "confidence_factors",
                                   "Several factors affected the analysis quality.")],
                       voice_config |->
                          [voice_id |-> voice_ids.cautious_assistant, stability |-> 60, clarity |-> 70]]

\* the audio returned by the service is not used: a placeholder URL is returned
synthesize_voice(script, voice_config, tts) ==
    LET audio_data == text_to_speech(tts)
    IN  IF audio_data.raised THEN NONE
        ELSE "https://storage.example.com/voice_responses/timestamp.mp3"

\* prediction: the dict returned by analyze_glucose, or None
synthesize_response(pred, tts) ==
    IF ~Truthy(pred) \/ ~Truthy(Get(pred, "glucose_prediction", JsonNull))
    THEN [error |-> "Missing glucose prediction", voice_response |-> NONE,
          voice_script |-> [template |-> NONE]]
    ELSE LET glucose_prediction == pred["glucose_prediction"]
             sv == create_voice_script(glucose_prediction)
         IN  [voice_response |-> synthesize_voice(sv.script, sv.voice_config, tts),
              voice_script |-> sv.script]

\* the voice id synthesize_response puts in its text-to-speech request (line 115)
synthesize_response_voice(pred) ==
    IF ~Truthy(pred) \/ ~Truthy(Get(pred, "glucose_prediction", JsonNull))
    THEN NONE
    ELSE create_voice_script(pred["glucose_prediction"]).voice_config.voice_id

\* ------------------------------------------------------------ PortiaService
\* random.randint(70, 95), random.randint(75, 98): the ends of each range
\* (snr and duration are drawn from 18..30 and 10..30 and only shown in the prompt)
QualityDraws ==
    {[snr |-> 18, duration |-> 10, clarity |-> 70, spectral_quality |-> 75],
     [snr |-> 30, duration |-> 30, clarity |-> 95, spectral_quality |-> 98]}

\* stage 1: nothing in the try block can raise; the except branch is unreachable
_preprocess_audio_sync(audio_data, q) ==
    [raised |-> FALSE, value |-> [processed_audio |-> audio_data, quality_metrics |-> q]]

\* stage 2: a list of embedding_dim random numbers (a vector is kept by its length)
embedding_dim == 512
_extract_embeddings_sync(processed) ==
    [raised |-> FALSE, value |-> [is_none |-> FALSE, len |-> embedding_dim]]

\* rows of a table (a sequence, oldest first) of one user, newest first
RowsOf(table, uid) ==
    LET idx == {i \in 1..Len(table) : table[i].user_id = uid}
        n == Cardinality(idx)
        nth[k \in 1..n] == CHOOSE i \in idx : Cardinality({j \in idx : j > i}) = k - 1
    IN  [k \in 1..n |-> table[nth[k]]]

\* the first of the 5 newest sessions that carries a conversation history
HistoryOf(rows) ==
    LET m == IF Len(rows) < 5 THEN Len(rows) ELSE 5
        hit == {k \in 1..m :
                    /\ Truthy(Get(rows[k], "user_context", JsonNull))
                    /\ IsDict(rows[k].user_context)
                    /\ "conversation_history" \in DOMAIN rows[k].user_context}
    IN  IF hit = {} THEN <<>> ELSE rows[Min(hit)].user_context["conversation_history"]

(* Lines 233-263: the two selects run inside one try block. db is "ok",       *)
(* "first_raises" (the user_contexts select raises) or "second_raises" (the   *)
(* voice_sessions select raises, after questionnaire_data was written).       *)
FetchContext(uc, db, ucrows, vsrows) ==
    IF uc["user_id"] = NONE \/ db = "first_raises"
    THEN [conversation_data |-> EmptyDict, user_context |-> uc]
    ELSE
        LET mine == RowsOf(ucrows, uc["user_id"])
            cd == IF Len(mine) > 0 /\ Truthy(mine[1].context_data)
                  THEN mine[1].context_data ELSE EmptyDict
            uc1 == IF Len(mine) > 0 /\ Truthy(mine[1].context_data)
                   THEN Put(uc, "questionnaire_data", cd) ELSE uc
            hist == HistoryOf(RowsOf(vsrows, uc["user_id"]))
        IN  IF db = "second_raises" \/ hist = <<>>
            THEN [conversation_data |-> cd, user_context |-> uc1]
            ELSE [conversation_data |-> cd,
                  user_context |-> Put(uc1, "conversation_history", hist)]

\* copies d[k] into user_context[k] when d[k] is truthy (a non-empty str or list)
Adopt(uc, d, k) ==
    IF k \in DOMAIN d /\ d[k] # (IF k = "symptoms" THEN <<>> ELSE "")
    THEN Put(uc, k, d[k]) ELSE uc
AdoptAll(uc, d) ==
    Adopt(Adopt(Adopt(uc, d, "diabetes_status"), d, "meal_timing"), d, "symptoms")

(* Lines 265-298, outside any try block: `.get` on conversation_data or on    *)
(* its 'responses' member raises AttributeError when that value is not a dict *)
MergeContext(uc, conversation_data) ==
    IF ~Truthy(conversation_data) THEN [raised |-> FALSE, user_context |-> uc]
    ELSE IF ~IsDict(conversation_data) THEN [raised |-> TRUE, user_context |-> uc]
    ELSE
        LET uc1 == AdoptAll(uc, conversation_data)
            responses == Get(conversation_data, "responses", JsonNull)
        IN  IF ~Truthy(responses) THEN [raised |-> FALSE, user_context |-> uc1]
            ELSE IF ~IsDict(responses) THEN [raised |-> TRUE, user_context |-> uc1]
            ELSE [raised |-> FALSE, user_context |-> AdoptAll(uc1, responses)]

(* stage 3. `analysis` is what analyze_voice_data returned. Line 319 calls    *)
(* .get on analysis['glucose_assessment'], which raises when it is not a dict *)
_run_claude_inference_sync(uc, db, ucrows, vsrows, analysis) ==
    LET f == FetchContext(uc, db, ucrows, vsrows)
        m == MergeContext(f.user_context, f.conversation_data)
    IN  IF m.raised THEN [raised |-> TRUE, user_context |-> m.user_context, value |-> EmptyDict]
        ELSE IF ~IsDict(Get(analysis, "glucose_assessment", EmptyDict))
        THEN [raised |-> TRUE, user_context |-> m.user_context, value |-> EmptyDict]
        ELSE [raised |-> FALSE, user_context |-> m.user_context, value |-> analysis]

(* stage 4. int(confidence * 100) raises for a confidence that is not a       *)
(* number, clinical_insights.get raises when clinical_insights is not a dict. *)
(* The response text is a local of the stage: only the audio path is returned *)
_synthesize_voice_sync(pred, tts) ==
    LET glucose_assessment == Get(pred, "glucose_assessment", EmptyDict)
        confidence == Get(glucose_assessment, "confidence_score", 50)
        clinical_insights == Get(pred, "clinical_insights", EmptyDict)
        voice_id == Get(voice_ids, "serious_medical_voice", NONE)
    IN  IF ~IsDict(clinical_insights) \/ confidence = NonNumeric
        THEN [raised |-> TRUE, value |-> NONE, voice_id |-> NONE]
        ELSE [raised |-> FALSE, value |-> text_to_speech(tts).value, voice_id |-> voice_id]

(* stage 5. fail is the set of storage calls that raise, among "select",      *)
(* "insert_session", "insert_prediction", "retry_prediction". u1..u3 are      *)
(* fresh ids: the new session id, the id the database gives the prediction    *)
(* row, the id of the retried insert.                                         *)
StoreCalls == {"select", "insert_session", "insert_prediction", "retry_prediction"}

\* the body of the try block, lines 364-413: raised when a storage call raises out of it
StoreTry(sid, uid, pred, voice, quality, fail, vs, gp, u1, u2, u3) ==
    LET existing == {i \in 1..Len(vs) : vs[i].id = sid}
        conf == Get(Get(pred, "glucose_assessment", EmptyDict), "confidence_score", 50)
        Raise(vs1) == [raised |-> TRUE, value |-> EmptyDict, vs |-> vs1, gp |-> gp]
        Ret(v, vs1, gp1) == [raised |-> FALSE, value |-> v, vs |-> vs1, gp |-> gp1]
    IN  IF "select" \in fail THEN Raise(vs)
        ELSE IF existing = {} /\ "insert_session" \in fail THEN Raise(vs)
        ELSE
            LET sid2 == IF existing = {} THEN u1 ELSE sid
                vs2 == IF existing = {}
                       THEN Append(vs, [id |-> u1, user_id |-> uid, audio_file_path |-> voice,
                                        user_context |-> EmptyDict, quality_metrics |-> quality])
                       ELSE vs
                row(id) == [id |-> id, session_id |-> sid2, prediction_result |-> pred,
                            confidence_score |-> conf]
            IN  IF "insert_prediction" \notin fail
                THEN Ret([success |-> TRUE, voice_session_id |-> sid2, prediction_id |-> u2],
                         vs2, Append(gp, row(u2)))
                ELSE IF "retry_prediction" \notin fail
                THEN Ret([success |-> TRUE, voice_session_id |-> sid2, prediction_id |-> u3],
                         vs2, Append(gp, row(u3)))
                ELSE Raise(vs2)

\* a stage 5 whose storage errors are not caught
_store_results_sync_uncaught(sid, uid, pred, voice, quality, fail, vs, gp, u1, u2, u3) ==
    StoreTry(sid, uid, pred, voice, quality, fail, vs, gp, u1, u2, u3)

\* the try block with its except branch, lines 414-419: a failure result, never a raise
_store_results_sync(sid, uid, pred, voice, quality, fail, vs, gp, u1, u2, u3) ==
    LET t == StoreTry(sid, uid, pred, voice, quality, fail, vs, gp, u1, u2, u3)
    IN  IF t.raised
        THEN [raised |-> FALSE, value |-> [success |-> FALSE, error |-> "storage error"],
              vs |-> t.vs, gp |-> t.gp]
        ELSE t

\* an orchestrator that starts voice synthesis before the inference
NextStage_skip(st) ==
    CASE st = "preprocess" -> "extract"
      [] st = "extract" -> "synthesize"
      [] st = "infer" -> "synthesize"
      [] st = "synthesize" -> "persist"
      [] st = "persist" -> "returned"

\* the order in which run_glucose_analysis_sync calls the stages
NextStage(st) ==
    CASE st = "preprocess" -> "extract"
      [] st = "extract" -> "infer"
      [] st = "infer" -> "synthesize"
      [] st = "synthesize" -> "persist"
      [] st = "persist" -> "returned"

\* the dict returned by run_glucose_analysis_sync after stage 5
RunSuccess(sid, pred, voice) ==
    [success |-> TRUE, session_id |-> sid, prediction |-> pred, voice_response |-> voice,
     confidence |-> Get(Get(pred, "glucose_assessment", EmptyDict), "confidence_score", 50)]
\* the dict returned by the outer except
RunFailure(stage) == [success |-> FALSE, error |-> stage]

\* ------------------------------------------------------------ agent calls
Range(t) == {t[i] : i \in 1..Len(t)}
NoBody == [valid |-> FALSE, obj |-> EmptyDict]
\* what the reasoning service does with a request: raise, or answer with a text
ServiceRaises == [raises |-> TRUE, text |-> <<>>, body |-> NoBody]
ServiceAnswers ==
    {ServiceRaises} \cup
    {[raises |-> FALSE, text |-> t, body |-> b] :
        <<t, b>> \in {tb \in Texts \X Bodies : "b" \notin Range(tb[1]) => tb[2] = NoBody}}

Embedding == [is_none |-> FALSE, len |-> embedding_dim]
EmbeddingInputs == {[is_none |-> TRUE, len |-> 0], [is_none |-> FALSE, len |-> 0], Embedding}
ContextInputs == {JsonNull, EmptyDict, [diabetes_status |-> "Type 2 diabetes"]}

\* the response text handed to parse_response by a caller: None or a service text
ParseInputs ==
    {[fn |-> "parse_response", claude_response |-> IF s.raises THEN PyNone ELSE Str(s.text),
      svc |-> s] : s \in ServiceAnswers}
GlucoseInputs ==
    [fn : {"analyze_glucose"}, embeddings : EmbeddingInputs, user_context : ContextInputs,
     svc : ServiceAnswers]
VoiceDataInputs == [fn : {"analyze_voice_data"}, svc : ServiceAnswers]
SynthesisInputs == [fn : {"synthesize_response"}, svc : ServiceAnswers, tts : TtsOutcomes]

NoOutput == [none |-> TRUE]

\* ------------------------------------------------------------ EmbeddingAgent
(* A vector is kept as the sequence of its runs: [n, zero] is n consecutive   *)
(* entries, all zero or all feature values. A reference is NONE or the object *)
(* from_pretrained returned.                                                  *)
VecLen(v) == IF v = <<>> THEN 0 ELSE v[1].n + (IF Len(v) = 1 THEN 0 ELSE v[2].n)
\* v[:k] for a vector of one run
Truncate(v, k) == <<[n |-> k, zero |-> v[1].zero]>>
\* np.pad(v, (0, k)): k zeros after the last entry
PadEnd(v, k) == v \o <<[n |-> k, zero |-> TRUE]>>
\* zeros put before the first entry
PadOrTruncate_front(v) ==
    IF VecLen(v) > embedding_dim THEN Truncate(v, embedding_dim)
    ELSE IF VecLen(v) < embedding_dim
    THEN <<[n |-> embedding_dim - VecLen(v), zero |-> TRUE]>> \o v
    ELSE v
\* lines 62-66 and 96-99
PadOrTruncate(v) ==
    IF VecLen(v) > embedding_dim THEN Truncate(v, embedding_dim)
    ELSE IF VecLen(v) < embedding_dim THEN PadEnd(v, embedding_dim - VecLen(v))
    ELSE v

\* outputs.last_hidden_state.mean(dim=1): one value per hidden unit of wav2vec2-base
hidden_size == 768
_extract_with_wav2vec(waveform) == PadOrTruncate(<<[n |-> hidden_size, zero |-> FALSE]>>)
\* 40 MFCC means, centroid, bandwidth, rolloff, 7 contrast bands, 12 chroma bins
_extract_fallback_features(waveform) ==
    PadOrTruncate(<<[n |-> 40 + 1 + 1 + 1 + 7 + 12, zero |-> FALSE]>>)

\* the except handler of _load_model keeping what was loaded
LoadFailureValue_keep(ref) == ref
\* lines 23-24: what the except handler of _load_model assigns
LoadFailureValue(ref) == NONE

Threads == {1, 2}
IdleThread ==
    [pc |-> "idle", calls |-> 0, ret |-> <<>>, load_failed |-> FALSE, infer_failed |-> FALSE]
ExtractorIdle ==
    /\ model = NONE
    /\ processor = NONE
    /\ loads = 0
    /\ reassigned = FALSE
    /\ callers = {}
    /\ ex = [t \in Threads |-> IdleThread]

\* ------------------------------------------- /auth routes and UserService
(* Two browsers call /auth/register, /auth/login, /auth/change-password and    *)
(* /auth/logout. A request advances by one storage call at a time, so the      *)
(* requests of the two browsers interleave between their storage calls. A      *)
(* password is kept as the part bcrypt reads (its first bcrypt_limit bytes),   *)
(* its length, and the rest.                                                   *)
Browsers == {1, 2}
Emails == {"a@example.com", "b@example.com"}
bcrypt_limit == 72
min_password == 6
Passwords ==
    {[head |-> "pw", len |-> 5, tail |-> ""],
     [head |-> "password123", len |-> 11, tail |-> ""],
     [head |-> "seventy-two-bytes", len |-> 80, tail |-> "x"],
     [head |-> "seventy-two-bytes", len |-> 80, tail |-> "y"]}
DbOutcomes == {"ok", "raises"}
InsertOutcomes == {"ok", "no_data", "raises"}

\* UserService._hash_password: bcrypt.hashpw with a fresh salt
_hash_password(password, salt) ==
    IF bcrypt_build = "rejects" /\ password.len > bcrypt_limit
    THEN [raised |-> TRUE, value |-> NONE]
    ELSE [raised |-> FALSE, value |-> [key |-> password.head, salt |-> salt]]

\* a check that compares the whole password
_verify_password_whole(password, hashed) ==
    password.head = hashed.key /\ password.len <= bcrypt_limit

\* UserService._verify_password: bcrypt.checkpw, False when it raises
_verify_password(password, hashed) ==
    IF bcrypt_build = "rejects" /\ password.len > bcrypt_limit
    THEN FALSE
    ELSE password.head = hashed.key

\* .select('*').eq(column, value): the matching rows, in table order
SelectEq(table, column, value) == SelectSeq(table, LAMBDA row : row[column] = value)
\* an update that the database acknowledges and does not apply
UpdateById_lost(table, id, column, value) == table
\* .update(changes).eq('id', id)
UpdateById(table, id, column, value) ==
    [i \in 1..Len(table) |->
        IF table[i].id = id THEN [table[i] EXCEPT ![column] = value] ELSE table[i]]

NoResult == [status |-> 0, success |-> FALSE, error |-> ""]
IdleCall ==
    [op |-> "none", pc |-> "idle", email |-> NONE, password |-> NONE, new_password |-> NONE,
     user_id |-> 0, password_hash |-> NONE, seq |-> 0, result |-> NoResult]
NewCall(op, email, password, new_password, where) ==
    [IdleCall EXCEPT !.op = op, !.pc = where, !.email = email, !.password = password,
                     !.new_password = new_password, !.seq = past.n + 1]
\* the JSON response of a route
Respond(rec, status, error) ==
    [rec EXCEPT !.pc = "done",
                !.result = [status |-> status, success |-> (status = 200), error |-> error]]
Serving(c) == call[c].pc \notin {"idle", "done"}
\* a request arrives at browser c's connection
Arrive(c) ==
    /\ ~Serving(c)
    /\ past.n < MaxRequests
Counted(c) ==
    [past EXCEPT !.n = @ + 1, !.overlap = @ \/ \E d \in Browsers \ {c} : Serving(d)]

WebIdle ==
    /\ users = <<>>
    /\ profiles = <<>>
    /\ flask = [c \in Browsers |-> EmptyDict]
    /\ call = [c \in Browsers |-> IdleCall]
    /\ past = [n |-> 0, overlap |-> FALSE, accounts |-> {}, changes |-> {}]
    /\ bcrypt_build = "truncates"
    /\ computed = <<>>
    /\ requests = 0

\* ------------------------------------------------- POST /api/v1/analyze
Users == {"u1", "u2"}
HealthContext ==
    [diabetes_status |-> "Type 2 diabetes", meal_timing |-> "1-2 hours ago",
     symptoms |-> <<"Shakiness or tremors">>]
\* the Flask session: anonymous, logged in, logged in with a submitted questionnaire
SessionStates ==
    {EmptyDict,
     [user_id |-> "u1"],
     [user_id |-> "u1", questionnaire_responses |-> [q1 |-> "yes"],
      recording_prompt |-> "Please read the passage", health_context |-> HealthContext]}
\* context_data of the user_contexts row found in the database (any JSON the client sent)
ContextDatas ==
    {EmptyDict,
     [diabetes_status |-> "Type 1 diabetes"],
     [responses |-> [symptoms |-> <<"Increased thirst or urination">>],
      health_context |-> HealthContext],
     [responses |-> JsonList],
     JsonList}
ContextTables ==
    {<<>>} \cup {<<[id |-> 0, user_id |-> "u1", context_data |-> cd]>> : cd \in ContextDatas}
DbReads == {"ok", "first_raises", "second_raises"}
\* the assessments analyze_voice_data can return, over all answers of the service
AnalysisOutcomes == {analyze_voice_data(sv) : sv \in ServiceAnswers}

NoEmbedding == [is_none |-> TRUE, len |-> 0]
RunIdle ==
    /\ user_id = NONE
    /\ user_context = EmptyDict
    /\ session_id = 0
    /\ processed_audio = EmptyDict
    /\ embeddings = NoEmbedding
    /\ prediction = EmptyDict
    /\ voice_response = NONE
    /\ store_result = EmptyDict
    /\ result = EmptyDict
    /\ stages = <<>>
    /\ faults = {}

AgentsIdle ==
    /\ a_in = [fn |-> "none"]
    /\ a_op = "none"
    /\ a_out = NoOutput
    /\ a_calls = 0

Init ==
    /\ AgentsIdle
    /\ pc = "idle"
    /\ session \in SessionStates
    /\ response = EmptyDict
    /\ RunIdle
    /\ user_contexts \in ContextTables
    /\ voice_sessions = <<>>
    /\ glucose_predictions = <<>>
    /\ next_uuid = 1
    /\ tts_voice = NONE
    /\ ExtractorIdle
    /\ WebIdle
    /\ runs = <<>>

\* analyze_voice, lines 143-160: the user_context built from the Flask session
BuildUserContext(sess, uid) ==
    LET health_context == Get(sess, "health_context", EmptyDict)
    IN  [user_id |-> uid,
         questionnaire_responses |-> Get(sess, "questionnaire_responses", EmptyDict),
         health_context |-> health_context,
         recording_prompt |-> Get(sess, "recording_prompt", ""),
         diabetes_status |-> Get(health_context, "diabetes_status", "Unknown"),
         meal_timing |-> Get(health_context, "meal_timing", "Unknown"),
         symptoms |-> Get(health_context, "symptoms", <<>>)]

(* analyze_voice, lines 130-166: the early returns, the user_context built    *)
(* from the Flask session, the session id. portia_ok is whether the module    *)
(* level PortiaService was constructed; form_user is request.form's user_id.  *)
ReceiveRequest ==
    /\ pc = "idle"
    /\ \E portia_ok \in BOOLEAN, has_audio \in BOOLEAN, form_user \in {NONE, "u2"} :
        IF ~portia_ok
        THEN /\ response' = [status |-> 500, success |-> FALSE, error |-> "Portia service not initialized"]
             /\ pc' = "responded"
             /\ UNCHANGED <<run_vars, next_uuid>>
        ELSE IF ~has_audio
        THEN /\ response' = [status |-> 400, success |-> FALSE, error |-> "No audio file provided"]
             /\ pc' = "responded"
             /\ UNCHANGED <<run_vars, next_uuid>>
        ELSE LET uid == IF form_user # NONE THEN form_user ELSE Get(session, "user_id", NONE)
             IN  /\ user_id' = uid
                 /\ user_context' = BuildUserContext(session, uid)
                 /\ session_id' = next_uuid
                 /\ next_uuid' = next_uuid + 1
                 /\ pc' = "preprocess"
                 /\ UNCHANGED <<response, processed_audio, embeddings, prediction,
                                voice_response, store_result, result, stages, faults>>
    /\ UNCHANGED <<session, user_contexts, voice_sessions, glucose_predictions, a_vars, tts_voice, x_vars>>

\* run_glucose_analysis_sync, line 107
Preprocess ==
    /\ pc = "preprocess"
    /\ \E q \in QualityDraws :
        LET r == _preprocess_audio_sync("audio.wav", q)
        IN  IF r.raised
            THEN result' = RunFailure("Preprocess") /\ pc' = "returned" /\ UNCHANGED processed_audio
            ELSE processed_audio' = r.value /\ pc' = NextStage("preprocess") /\ UNCHANGED result
    /\ stages' = Append(stages, "Preprocess")
    /\ UNCHANGED <<session, response, user_id, user_context, session_id, embeddings, prediction,
                   voice_response, store_result, faults, db_vars, a_vars, tts_voice, x_vars>>

\* run_glucose_analysis_sync, line 110
Extract ==
    /\ pc = "extract"
    /\ LET r == _extract_embeddings_sync(processed_audio)
       IN  IF r.raised
           THEN result' = RunFailure("Extract") /\ pc' = "returned" /\ UNCHANGED embeddings
           ELSE embeddings' = r.value /\ pc' = NextStage("extract") /\ UNCHANGED result
    /\ stages' = Append(stages, "Extract")
    /\ UNCHANGED <<session, response, user_id, user_context, session_id, processed_audio,
                   prediction, voice_response, store_result, faults, db_vars, a_vars, tts_voice, x_vars>>

\* run_glucose_analysis_sync, line 113
Infer ==
    /\ pc = "infer"
    /\ \E db \in DbReads, analysis \in AnalysisOutcomes :
        LET r == _run_claude_inference_sync(user_context, db, user_contexts, voice_sessions, analysis)
        IN  /\ user_context' = r.user_context
            /\ IF r.raised
               THEN result' = RunFailure("Infer") /\ pc' = "returned" /\ UNCHANGED prediction
               ELSE prediction' = r.value /\ pc' = NextStage("infer") /\ UNCHANGED result
    /\ stages' = Append(stages, "Infer")
    /\ UNCHANGED <<session, response, user_id, session_id, processed_audio, embeddings,
                   voice_response, store_result, faults, db_vars, a_vars, tts_voice, x_vars>>

\* run_glucose_analysis_sync, line 116
Synthesize ==
    /\ pc = "synthesize"
    /\ \E tts \in TtsOutcomes :
        LET r == _synthesize_voice_sync(prediction, tts)
        IN  IF r.raised
            THEN /\ result' = RunFailure("Synthesize") /\ pc' = "returned"
                 /\ UNCHANGED <<voice_response, faults, tts_voice>>
            ELSE /\ voice_response' = r.value /\ pc' = NextStage("synthesize")
                 /\ tts_voice' = r.voice_id
                 /\ faults' = IF tts = "ok" THEN faults ELSE faults \cup {"tts"}
                 /\ UNCHANGED result
    /\ stages' = Append(stages, "Synthesize")
    /\ UNCHANGED <<session, response, user_id, user_context, session_id, processed_audio,
                   embeddings, prediction, store_result, db_vars, a_vars, x_vars>>

\* run_glucose_analysis_sync, lines 119-135: stage 5, then the result is returned
Persist ==
    /\ pc = "persist"
    /\ \E fail \in SUBSET StoreCalls :
        LET r == _store_results_sync(session_id, user_id, prediction, voice_response,
                                     processed_audio["quality_metrics"], fail,
                                     voice_sessions, glucose_predictions,
                                     next_uuid, next_uuid + 1, next_uuid + 2)
            reached == IF "select" \in fail THEN {"select"}
                       ELSE IF "insert_session" \in fail THEN {"select", "insert_session"}
                       ELSE IF "insert_prediction" \notin fail
                            THEN {"select", "insert_session", "insert_prediction"}
                       ELSE StoreCalls
        IN  /\ voice_sessions' = r.vs
            /\ glucose_predictions' = r.gp
            /\ faults' = IF reached \cap fail # {} THEN faults \cup {"persist"} ELSE faults
            /\ IF r.raised
               THEN result' = RunFailure("Persist") /\ UNCHANGED store_result
               ELSE /\ store_result' = r.value
                    /\ result' = RunSuccess(session_id, prediction, voice_response)
    /\ next_uuid' = next_uuid + 3
    /\ stages' = Append(stages, "Persist")
    /\ pc' = NextStage("persist")
    /\ UNCHANGED <<session, response, user_id, user_context, session_id, processed_audio,
                   embeddings, prediction, voice_response, user_contexts, a_vars, tts_voice, x_vars>>

(* analyze_voice, lines 168-204. fail is the set of the handler's own inserts *)
(* that raise; the first failure leaves the try block.                        *)
Finish ==
    /\ pc = "returned"
    /\ IF ~result.success
       THEN /\ response' = [status |-> 500, success |-> FALSE, error |-> result.error]
            /\ UNCHANGED <<session, voice_sessions, glucose_predictions, next_uuid, faults>>
       ELSE \E fail \in SUBSET {"insert_session", "insert_prediction"} :
            LET pred == result.prediction
                conf == Get(Get(pred, "glucose_assessment", EmptyDict), "confidence_score", 70)
                vrow == [id |-> session_id, user_id |-> user_id,
                         audio_file_path |-> "voice_samples/audio.wav",
                         user_context |-> user_context,
                         quality_metrics |-> [snr |-> 25, clarity |-> 85, spectral_quality |-> 90]]
                prow == [id |-> next_uuid, session_id |-> session_id, prediction_result |-> pred,
                         confidence_score |-> conf]
            IN  /\ voice_sessions' =
                       IF "insert_session" \in fail THEN voice_sessions
                       ELSE Append(voice_sessions, vrow)
                /\ glucose_predictions' =
                       IF fail # {} THEN glucose_predictions
                       ELSE Append(glucose_predictions, prow)
                /\ faults' = IF fail # {} THEN faults \cup {"handler"} ELSE faults
                /\ next_uuid' = next_uuid + 1
                /\ session' = Put(session, "analysis_result", pred)
                /\ response' = [status |-> 200, success |-> TRUE, prediction |-> pred,
                                confidence |-> conf, session_id |-> session_id]
    /\ pc' = "responded"
    /\ UNCHANGED <<user_id, user_context, session_id, processed_audio, embeddings, prediction,
                   voice_response, store_result, result, stages, user_contexts, a_vars, tts_voice, x_vars>>

Next == ReceiveRequest \/ Preprocess \/ Extract \/ Infer \/ Synthesize \/ Persist \/ Finish

Spec == Init /\ [][Next]_vars

\* ---------------------------------------------------------- context_service
\* the fixed lookup table of determine_metabolic_phase
phases ==
    ("Currently eating/just finished (0-30 min)" :>
        [phase |-> "Early Postprandial", expected_pattern |-> "Initial glucose rise",
         is_critical_window |-> FALSE,
         special_notes |-> "early insulin response phase, voice may show stress markers"]) @@
    ("30 minutes to 1 hour ago" :>
        [phase |-> "Early Postprandial", expected_pattern |-> "Glucose rising",
         is_critical_window |-> FALSE,
         special_notes |-> "early postprandial phase, glucose beginning to rise"]) @@
    ("1-2 hours ago" :>
        [phase |-> "Peak Postprandial", expected_pattern |-> "Glucose at or near peak",
         is_critical_window |-> TRUE,
         special_notes |-> "peak postprandial glucose phase (most critical for detection)"]) @@
    ("2-4 hours ago" :>
        [phase |-> "Late Postprandial", expected_pattern |-> "Glucose normalizing",
         is_critical_window |-> FALSE,
         special_notes |-> "late postprandial, glucose normalizing in healthy individuals"]) @@
    ("4-8 hours ago" :>
        [phase |-> "Post-absorptive", expected_pattern |-> "Return to baseline",
         is_critical_window |-> FALSE,
         special_notes |-> "return to baseline, fasting-like state"]) @@
    ("8+ hours/overnight fasting" :>
        [phase |-> "Fasting", expected_pattern |-> "Baseline glucose levels",
         is_critical_window |-> FALSE,
         special_notes |-> "true fasting state, baseline glucose patterns"]) @@
    ("I don't remember" :>
        [phase |-> "Unknown", expected_pattern |-> "Unpredictable",
         is_critical_window |-> FALSE,
         special_notes |-> "uncertainty flag, reduced confidence in predictions"])

\* a lookup without the guard for missing input and with an empty default
determine_metabolic_phase_bare_lookup(meal_timing) ==
    IF meal_timing \in DOMAIN phases THEN phases[meal_timing] ELSE EmptyDict

\* meal_timing: None or a string
determine_metabolic_phase(meal_timing) ==
    IF meal_timing = NONE \/ meal_timing = ""
    THEN [phase |-> "Unknown", expected_pattern |-> "Unpredictable",
          is_critical_window |-> FALSE, special_notes |-> "insufficient meal timing data"]
    ELSE Get(phases, meal_timing,
             [phase |-> "Unknown", expected_pattern |-> "Unpredictable",
              is_critical_window |-> FALSE,
              special_notes |-> "unrecognized meal timing pattern"])

hyperglycemia_symptoms == {"Unusual thirst or dry mouth", "Frequent urination", "Blurred vision"}
hypoglycemia_symptoms == {"Shakiness or tremors", "Confusion or difficulty concentrating"}
nonspecific_symptoms == {"Fatigue or drowsiness", "Nausea or vomiting"}

\* counting each distinct label once
CountIn_distinct(symptoms, group) == Cardinality({x \in Range(symptoms) : x \in group})
\* sum(1 for s in symptoms if s in group)
CountIn(symptoms, group) == Cardinality({i \in 1..Len(symptoms) : symptoms[i] \in group})

\* urgency from the length of the list alone
SymptomUrgency_count_only(symptoms) ==
    IF Len(symptoms) >= 3 THEN "High" ELSE IF Len(symptoms) = 2 THEN "Moderate" ELSE "Low"
\* lines 105-116: urgency from the length of the list, raised to High by confusion
SymptomUrgency(symptoms) ==
    LET total_symptoms == Len(symptoms)
        by_count == IF total_symptoms >= 3 THEN "High"
                    ELSE IF total_symptoms = 2 THEN "Moderate" ELSE "Low"
    IN  IF "Confusion or difficulty concentrating" \in Range(symptoms) THEN "High" ELSE by_count

\* symptoms: [none, list], None or a list of strings
analyze_symptom_constellation(symptoms) ==
    IF symptoms.none \/ Len(symptoms.list) = 0
    THEN [cluster_type |-> "Asymptomatic", direction |-> "Neutral", urgency |-> "Low"]
    ELSE
    LET hyper_count == CountIn(symptoms.list, hyperglycemia_symptoms)
        hypo_count == CountIn(symptoms.list, hypoglycemia_symptoms)
        urgency == SymptomUrgency(symptoms.list)
    IN  IF hyper_count > hypo_count
        THEN [cluster_type |-> "Hyperglycemia Cluster", direction |-> "Hyperglycemic", urgency |-> urgency]
        ELSE IF hypo_count > hyper_count
        THEN [cluster_type |-> "Hypoglycemia Cluster", direction |-> "Hypoglycemic", urgency |-> urgency]
        ELSE [cluster_type |-> "Mixed Symptom Cluster", direction |-> "Mixed", urgency |-> urgency]

\* questionnaire labels, and labels the tables do not know
MealTimings == DOMAIN phases \cup {NONE, "", "yesterday", "1-2 Hours Ago"}
SymptomLabels ==
    hyperglycemia_symptoms \cup hypoglycemia_symptoms \cup nonspecific_symptoms \cup {"Headache"}
SymptomLists == UNION {[1..n -> SymptomLabels] : n \in 0..MaxSymptoms}
MealTimingInputs == [fn : {"determine_metabolic_phase"}, meal_timing : MealTimings]
SymptomInputs ==
    {[fn |-> "analyze_symptom_constellation", symptoms |-> [none |-> TRUE, list |-> <<>>]]} \cup
    {[fn |-> "analyze_symptom_constellation", symptoms |-> [none |-> FALSE, list |-> l]] :
        l \in SymptomLists}

\* ------------------------------- ClaudeInferenceAgent.build_analysis_prompt
(* A text is kept as the sequence of its pieces, the empty string being <<>>. *)
(* A symptom list is a sequence of labels. The arguments are dicts with the   *)
(* keys present; a vector is kept by its length.                              *)
\* str.capitalize on the role names that occur
Capitalize(role) ==
    IF role = "user" THEN "User" ELSE IF role = "agent" THEN "Agent" ELSE role

considerations ==
    ("No diabetes, no family history" :> "minimal baseline risk with focus on acute glucose spikes") @@
    ("No diabetes, family history of diabetes" :> "enhanced sensitivity for prediabetic patterns") @@
    ("Prediabetes/borderline diabetes" :> "monitoring for progression indicators") @@
    ("Type 1 diabetes" :> "high variability with focus on rapid changes and ketone-related voice markers") @@
    ("Type 2 diabetes, well-controlled" :> "moderate stability with attention to medication compliance indicators") @@
    ("Type 2 diabetes, poorly controlled" :> "high baseline risk with multiple complication indicators") @@
    ("Gestational diabetes" :> "pregnancy-specific voice changes with hormonal considerations") @@
    ("Unknown" :> "general glucose assessment without specific risk stratification")
get_special_considerations(diabetes_status) ==
    Get(considerations, diabetes_status,
        "general glucose assessment without specific risk stratification")

\* only the 'conversation' member is looked at
ConversationHistory_top_only(user_responses) == Get(user_responses, "conversation", <<>>)
\* lines 131-140: the 'conversation' member, else the turns of user_context
ConversationHistory(user_responses) ==
    LET ctx == Get(user_responses, "user_context", EmptyDict)
        turns == Get(ctx, "conversation_history", <<>>)
    IN  IF Get(user_responses, "conversation", <<>>) # <<>>
        THEN user_responses["conversation"]
        ELSE IF Truthy(ctx) /\ turns # <<>>
        THEN [i \in 1..Len(turns) |->
                 [role |-> Capitalize(Get(turns[i], "role", "")), text |-> Get(turns[i], "text", "")]]
        ELSE <<>>

\* lines 142-173: a member is adopted where it is truthy; later sources win
Resolve(user_responses, key, falsy, default) ==
    LET ctx == Get(user_responses, "user_context", EmptyDict)
        responses == Get(ctx, "responses", EmptyDict)
        from_ctx == IF Truthy(ctx) /\ Get(ctx, key, falsy) # falsy THEN ctx[key] ELSE default
        from_responses ==
            IF Truthy(ctx) /\ Truthy(responses) /\ Get(responses, key, falsy) # falsy
            THEN responses[key] ELSE from_ctx
    IN  IF Get(user_responses, key, falsy) # falsy THEN user_responses[key] ELSE from_responses

\* returns the prompt and the three argument objects as the call leaves them
build_analysis_prompt(voice_embedding, user_responses, audio_metrics) ==
    LET conversation_history == ConversationHistory(user_responses)
        diabetes_status == Resolve(user_responses, "diabetes_status", "", "Unknown")
        meal_timing == Resolve(user_responses, "meal_timing", "", "Unknown")
        symptoms == Resolve(user_responses, "symptoms", <<>>, <<>>)
        embedding_preview == Min({10, voice_embedding.len})
        metabolic_phase == determine_metabolic_phase(meal_timing)
        symptom_analysis == analyze_symptom_constellation([none |-> FALSE, list |-> symptoms])
        request ==
            [section |-> "request", embedding_preview |-> embedding_preview,
             snr |-> Get(audio_metrics, "snr", NonNumeric),
             clarity |-> Get(audio_metrics, "clarity", NonNumeric),
             diabetes_status |-> diabetes_status, meal_timing |-> meal_timing,
             phase |-> metabolic_phase.phase,
             critical_window |-> metabolic_phase.is_critical_window]
        closing ==
            [section |-> "analysis_request",
             considerations |-> get_special_considerations(diabetes_status),
             timing |-> metabolic_phase.special_notes,
             high_confidence |-> Get(audio_metrics, "snr", 0) > 20]
        user_prompt ==
            <<request>>
            \o (IF symptoms # <<>>
                THEN <<[section |-> "symptoms", symptoms |-> symptoms,
                        cluster_type |-> symptom_analysis.cluster_type,
                        direction |-> symptom_analysis.direction,
                        urgency |-> symptom_analysis.urgency]>>
                ELSE <<>>)
            \o (IF conversation_history # <<>>
                THEN <<[section |-> "conversation", text |-> conversation_history]>>
                ELSE <<>>)
            \o <<closing>>
    IN  [prompt |-> [system |-> "system_prompt", user |-> user_prompt],
         voice_embedding |-> voice_embedding,
         user_responses |-> user_responses,
         audio_metrics |-> audio_metrics]

\* arguments of build_analysis_prompt
Turn == [role |-> "user", text |-> "I feel shaky"]
Transcript == <<[role |-> "", text |-> "User: I ate an hour ago"]>>
PromptContexts ==
    {EmptyDict,
     [symptoms |-> <<"Shakiness or tremors">>],
     [symptoms |-> <<>>, meal_timing |-> "2-4 hours ago"],
     [responses |-> [symptoms |-> <<"Frequent urination", "Blurred vision">>,
                     meal_timing |-> "1-2 hours ago"]],
     [conversation_history |-> <<>>],
     [conversation_history |-> <<Turn>>],
     [conversation_history |-> <<Turn, [text |-> "noted"]>>, diabetes_status |-> "Type 1 diabetes"]}
PromptResponses ==
    {Restrict(r, keys) :
        r \in [user_context : PromptContexts, conversation : {<<>>, Transcript},
               symptoms : {<<>>, <<"Blurred vision">>}, meal_timing : {"", "1-2 hours ago"}],
        keys \in SUBSET {"user_context", "conversation", "symptoms", "meal_timing"}}
PromptInputs ==
    [fn : {"build_analysis_prompt"},
     voice_embedding : {[is_none |-> FALSE, len |-> 5], Embedding},
     user_responses : PromptResponses,
     audio_metrics : {EmptyDict, [snr |-> 25, duration |-> 12, clarity |-> 85, spectral_quality |-> 90]}]

\* ------------------------- AudioProcessorAgent and SupabaseManager quality
(* measured: the means the scoring computes from the waveform. computation    *)
(* is whether a numpy / librosa call of the scoring raises (an empty or       *)
(* non-finite waveform). Scores are integers; snr is kept in whole dB.        *)
\* a clamp that only caps the score at 100
Clamp_upper_only(x) == Min({100, x})
\* min(100, max(0, x))
Clamp(x) == Min({100, Max({0, x})})
\* int(n / d) for d > 0: the quotient truncated towards zero
IntQuot(n, d) == IF n >= 0 THEN n \div d ELSE 0 - ((0 - n) \div d)
Score(measured) ==
    [snr |-> measured.snr, duration |-> measured.duration,
     clarity |-> Clamp(IntQuot(measured.centroid, 50)),
     spectral_quality |-> Clamp(IntQuot(100 * 100 - measured.bandwidth, 100))]
\* PortiaService._preprocess_audio_sync: the record of its except branch
PreprocessFallback == [snr |-> 20, duration |-> 15, clarity |-> 80, spectral_quality |-> 85]

\* AudioProcessorAgent.assess_quality: no exception handler
assess_quality(measured, computation) ==
    IF computation = "error" THEN [raised |-> TRUE, value |-> EmptyDict]
    ELSE [raised |-> FALSE, value |-> Score(measured)]

\* AudioProcessorAgent.process_audio: try / finally, the error leaves the call
process_audio(measured, computation) ==
    LET quality_metrics == assess_quality(measured, computation)
    IN  IF quality_metrics.raised THEN [raised |-> TRUE, value |-> EmptyDict]
        ELSE [raised |-> FALSE,
              value |-> [processed_audio |-> "waveform", quality_metrics |-> quality_metrics.value]]

\* SupabaseManager._assess_audio_quality: the except branch returns the defaults
_assess_audio_quality(measured, computation) ==
    IF computation = "error"
    THEN [raised |-> FALSE,
          value |-> [snr |-> 20, duration |-> 5, clarity |-> 70, spectral_quality |-> 75]]
    ELSE [raised |-> FALSE, value |-> Score(measured)]

Measures ==
    [snr : {10, 30}, duration : {12}, centroid : {0, 2500, 8000}, bandwidth : {150, 1800, 20000}]
QualityInputs ==
    [fn : {"process_audio", "_assess_audio_quality"}, measured : Measures,
     computation : {"ok", "error"}]

\* ----------------------------------------------- calls of the agents alone
InitAgents ==
    /\ a_in \in ParseInputs \cup GlucoseInputs \cup VoiceDataInputs \cup SynthesisInputs
                \cup MealTimingInputs \cup SymptomInputs \cup PromptInputs \cup QualityInputs
    /\ a_op = "none"
    /\ a_out = NoOutput
    /\ a_calls = 0
    /\ pc = "idle"
    /\ session = EmptyDict
    /\ response = EmptyDict
    /\ RunIdle
    /\ user_contexts = <<>>
    /\ voice_sessions = <<>>
    /\ glucose_predictions = <<>>
    /\ next_uuid = 1
    /\ tts_voice = NONE
    /\ ExtractorIdle
    /\ WebIdle
    /\ runs = <<>>

ParseResponse ==
    /\ a_op = "none" /\ a_in.fn = "parse_response"
    /\ a_out' = parse_response(a_in.claude_response, a_in.svc.body)
    /\ a_op' = "parse_response"
    /\ UNCHANGED <<a_in, a_calls, p_vars, tts_voice, x_vars>>

AnalyzeGlucose ==
    /\ a_op = "none" /\ a_in.fn = "analyze_glucose"
    /\ LET r == analyze_glucose(a_in.embeddings, a_in.user_context, a_in.svc)
       IN  a_out' = r.out /\ a_calls' = a_calls + r.calls
    /\ a_op' = "analyze_glucose"
    /\ UNCHANGED <<a_in, p_vars, tts_voice, x_vars>>

AnalyzeVoiceData ==
    /\ a_op = "none" /\ a_in.fn = "analyze_voice_data"
    /\ a_out' = analyze_voice_data(a_in.svc)
    /\ a_calls' = a_calls + 1
    /\ a_op' = "analyze_voice_data"
    /\ UNCHANGED <<a_in, p_vars, tts_voice, x_vars>>

\* the synthesizer is given the prediction the inference agent parsed from the answer
SynthesizeResponse ==
    /\ a_op = "none" /\ a_in.fn = "synthesize_response"
    /\ LET parsed ==
               [glucose_prediction |->
                   parse_response(IF a_in.svc.raises THEN PyNone ELSE Str(a_in.svc.text),
                                  a_in.svc.body)]
       IN  /\ a_out' = synthesize_response(parsed, a_in.tts)
           /\ tts_voice' = synthesize_response_voice(parsed)
    /\ a_op' = "synthesize_response"
    /\ UNCHANGED <<a_in, a_calls, p_vars, x_vars>>

DetermineMetabolicPhase ==
    /\ a_op = "none" /\ a_in.fn = "determine_metabolic_phase"
    /\ a_out' = determine_metabolic_phase(a_in.meal_timing)
    /\ a_op' = "determine_metabolic_phase"
    /\ UNCHANGED <<a_in, a_calls, p_vars, tts_voice, x_vars>>

AnalyzeSymptomConstellation ==
    /\ a_op = "none" /\ a_in.fn = "analyze_symptom_constellation"
    /\ a_out' = analyze_symptom_constellation(a_in.symptoms)
    /\ a_op' = "analyze_symptom_constellation"
    /\ UNCHANGED <<a_in, a_calls, p_vars, tts_voice, x_vars>>

BuildAnalysisPrompt ==
    /\ a_op = "none" /\ a_in.fn = "build_analysis_prompt"
    /\ a_out' = build_analysis_prompt(a_in.voice_embedding, a_in.user_responses, a_in.audio_metrics)
    /\ a_op' = "build_analysis_prompt"
    /\ UNCHANGED <<a_in, a_calls, p_vars, tts_voice, x_vars>>

ProcessAudio ==
    /\ a_op = "none" /\ a_in.fn = "process_audio"
    /\ a_out' = process_audio(a_in.measured, a_in.computation)
    /\ a_op' = "process_audio"
    /\ UNCHANGED <<a_in, a_calls, p_vars, tts_voice, x_vars>>

AssessAudioQuality ==
    /\ a_op = "none" /\ a_in.fn = "_assess_audio_quality"
    /\ a_out' = _assess_audio_quality(a_in.measured, a_in.computation)
    /\ a_op' = "_assess_audio_quality"
    /\ UNCHANGED <<a_in, a_calls, p_vars, tts_voice, x_vars>>

NextAgents ==
    \/ ParseResponse \/ AnalyzeGlucose \/ AnalyzeVoiceData \/ SynthesizeResponse
    \/ DetermineMetabolicPhase \/ AnalyzeSymptomConstellation \/ BuildAnalysisPrompt
    \/ ProcessAudio \/ AssessAudioQuality

SpecAgents == InitAgents /\ [][NextAgents]_vars

\* ------------------------------ extract_embeddings called from threads
(* One step per read or write of self.model / self.processor. Whether a      *)
(* from_pretrained call or the model inference raises is the environment's   *)
(* choice. The pipeline's own stage 2 is a step of this specification too.   *)
InitExtractor ==
    /\ AgentsIdle
    /\ pc = "idle"
    /\ session = EmptyDict
    /\ response = EmptyDict
    /\ RunIdle
    /\ user_contexts = <<>>
    /\ voice_sessions = <<>>
    /\ glucose_predictions = <<>>
    /\ next_uuid = 1
    /\ tts_voice = NONE
    /\ model = NONE
    /\ processor = NONE
    /\ loads = 0
    /\ reassigned = FALSE
    /\ callers \in {{1}, Threads}
    /\ ex = [t \in Threads |-> IdleThread]
    /\ runs = <<>>
    /\ WebIdle

At(t, where) == t \in callers /\ ex[t].pc = where
Goto(t, where) == [ex EXCEPT ![t].pc = where]
BothSet == model # NONE /\ processor # NONE
e_frame == <<a_vars, p_vars, tts_voice, callers, runs, w_vars>>

\* extract_embeddings, lines 28-33
CallExtract(t) ==
    /\ At(t, "idle") /\ ex[t].calls < MaxCalls
    /\ ex' = [ex EXCEPT ![t].pc = "load_check", ![t].ret = <<>>,
                         ![t].load_failed = FALSE, ![t].infer_failed = FALSE]
    /\ UNCHANGED <<model, processor, loads, reassigned, e_frame>>

\* _load_model, line 16
LoadCheck(t) ==
    /\ At(t, "load_check")
    /\ ex' = Goto(t, IF model = NONE THEN "load_model" ELSE "check")
    /\ UNCHANGED <<model, processor, loads, reassigned, e_frame>>

\* _load_model, line 18
LoadModel(t) ==
    /\ At(t, "load_model")
    /\ \E ok \in BOOLEAN :
        IF ok
        THEN /\ model' = "Wav2Vec2Model"
             /\ reassigned' = (reassigned \/ BothSet)
             /\ ex' = Goto(t, "load_processor")
        ELSE /\ ex' = [ex EXCEPT ![t].pc = "except_model", ![t].load_failed = TRUE]
             /\ UNCHANGED <<model, reassigned>>
    /\ UNCHANGED <<processor, loads, e_frame>>

\* _load_model, line 19
LoadProcessor(t) ==
    /\ At(t, "load_processor")
    /\ \E ok \in BOOLEAN :
        IF ok
        THEN /\ processor' = "Wav2Vec2Processor"
             /\ loads' = loads + 1
             /\ reassigned' = (reassigned \/ BothSet)
             /\ ex' = Goto(t, "check")
        ELSE /\ ex' = [ex EXCEPT ![t].pc = "except_model", ![t].load_failed = TRUE]
             /\ UNCHANGED <<processor, loads, reassigned>>
    /\ UNCHANGED <<model, e_frame>>

\* _load_model, line 23
ExceptModel(t) ==
    /\ At(t, "except_model")
    /\ model' = LoadFailureValue(model)
    /\ reassigned' = (reassigned \/ BothSet)
    /\ ex' = Goto(t, "except_processor")
    /\ UNCHANGED <<processor, loads, e_frame>>

\* _load_model, line 24
ExceptProcessor(t) ==
    /\ At(t, "except_processor")
    /\ processor' = LoadFailureValue(processor)
    /\ reassigned' = (reassigned \/ BothSet)
    /\ ex' = Goto(t, "check")
    /\ UNCHANGED <<model, loads, e_frame>>

\* extract_embeddings, line 34
CheckModel(t) ==
    /\ At(t, "check")
    /\ ex' = Goto(t, IF BothSet THEN "wav2vec" ELSE "fallback")
    /\ UNCHANGED <<model, processor, loads, reassigned, e_frame>>

(* extract_embeddings, lines 35-37: self.processor(...) and self.model(...)   *)
(* raise when a reference was reset meanwhile; every exception is caught      *)
ExtractWithWav2vec(t) ==
    /\ At(t, "wav2vec")
    /\ \E ok \in BOOLEAN :
        IF BothSet /\ ok
        THEN ex' = [ex EXCEPT ![t].pc = "done", ![t].ret = _extract_with_wav2vec("waveform")]
        ELSE ex' = [ex EXCEPT ![t].pc = "fallback", ![t].infer_failed = TRUE]
    /\ UNCHANGED <<model, processor, loads, reassigned, e_frame>>

\* extract_embeddings, line 40
ExtractFallback(t) ==
    /\ At(t, "fallback")
    /\ ex' = [ex EXCEPT ![t].pc = "done", ![t].ret = _extract_fallback_features("waveform")]
    /\ UNCHANGED <<model, processor, loads, reassigned, e_frame>>

\* the call returns to its caller
ReturnEmbedding(t) ==
    /\ At(t, "done")
    /\ ex' = [ex EXCEPT ![t].pc = "idle", ![t].calls = ex[t].calls + 1]
    /\ UNCHANGED <<model, processor, loads, reassigned, e_frame>>

\* PortiaService._extract_embeddings_sync on a request thread
PipelineExtract ==
    /\ embeddings = NoEmbedding
    /\ embeddings' = _extract_embeddings_sync(processed_audio).value
    /\ UNCHANGED <<a_vars, pc, session, response, user_id, user_context, session_id,
                   processed_audio, prediction, voice_response, store_result, result, stages,
                   faults, db_vars, tts_voice, e_vars, runs, w_vars>>

NextExtractor ==
    \/ \E t \in Threads :
          \/ CallExtract(t) \/ LoadCheck(t) \/ LoadModel(t) \/ LoadProcessor(t)
          \/ ExceptModel(t) \/ ExceptProcessor(t) \/ CheckModel(t)
          \/ ExtractWithWav2vec(t) \/ ExtractFallback(t) \/ ReturnEmbedding(t)
    \/ PipelineExtract

SpecExtractor == InitExtractor /\ [][NextExtractor]_vars

\* ------------- concurrent requests on the module-level PortiaService
(* Each request thread has its own locals (runs[r]); the database tables and  *)
(* the id generator are shared. What the collaborators answer to a request    *)
(* (the random quality draw, the database reads, the reasoning and the        *)
(* text-to-speech service, the storage calls that fail) is fixed in answers.  *)
RunIds == {1, 2}
\* a session stored earlier by the conversation feature
SeedSessions ==
    <<[id |-> 0, user_id |-> "u1", audio_file_path |-> "voice_samples/earlier.wav",
       user_context |-> [conversation_history |-> <<Turn>>],
       quality_metrics |-> [snr |-> 25, clarity |-> 85, spectral_quality |-> 90]]>>
RunAnalyses ==
    {ServiceFallback,
     [glucose_assessment |-> [primary_estimate |-> "elevated", confidence_score |-> 90]],
     [glucose_assessment |-> JsonNull]}
RunAnswers ==
    [quality : {[snr |-> 18, duration |-> 10, clarity |-> 70, spectral_quality |-> 75]},
     db : {"ok", "second_raises"}, analysis : RunAnalyses,
     tts : {"ok", "http_error"}, store_fail : {{}}]
RunContexts ==
    {BuildUserContext([user_id |-> "u1", health_context |-> HealthContext], "u1"),
     BuildUserContext(EmptyDict, "u2")}
RunStart(ctx, ans) ==
    [pc |-> "receive", ctx0 |-> ctx, answers |-> ans, session_id |-> 0, user_context |-> ctx,
     processed_audio |-> EmptyDict, embeddings |-> NoEmbedding, prediction |-> EmptyDict,
     voice_response |-> NONE, store_result |-> EmptyDict, result |-> EmptyDict,
     response |-> EmptyDict, stored_vs |-> <<>>, stored_gp |-> <<>>]

InitRuns ==
    /\ AgentsIdle
    /\ pc = "idle"
    /\ session = EmptyDict
    /\ response = EmptyDict
    /\ RunIdle
    /\ tts_voice = NONE
    /\ ExtractorIdle
    /\ WebIdle
    /\ user_contexts \in {<<>>, <<[id |-> 0, user_id |-> "u1",
                                    context_data |-> [diabetes_status |-> "Type 1 diabetes"]]>>}
    /\ voice_sessions = SeedSessions
    /\ glucose_predictions = <<>>
    /\ next_uuid = 1
    /\ runs \in [RunIds -> {RunStart(c, a) : c \in RunContexts, a \in RunAnswers}]

\* a context dict shared by all requests
RunContext_shared(rs, r) == rs[1].user_context
\* run_glucose_analysis_sync, line 113: the stage works on the dict of its own request
RunContext(rs, r) == rs[r].user_context

r_frame == <<a_vars, pc, session, response, run_vars, tts_voice, e_vars, w_vars>>
\* ids of the rows a call appended to a table
Appended(before, after) == [i \in 1..(Len(after) - Len(before)) |-> after[Len(before) + i].id]

\* analyze_voice, line 160
RunReceive(r) ==
    /\ runs[r].pc = "receive"
    /\ runs' = [runs EXCEPT ![r].session_id = next_uuid, ![r].pc = "preprocess"]
    /\ next_uuid' = next_uuid + 1
    /\ UNCHANGED <<user_contexts, voice_sessions, glucose_predictions, r_frame>>

RunPreprocess(r) ==
    /\ runs[r].pc = "preprocess"
    /\ runs' = [runs EXCEPT
                   ![r].processed_audio =
                       _preprocess_audio_sync("audio.wav", runs[r].answers.quality).value,
                   ![r].pc = NextStage("preprocess")]
    /\ UNCHANGED <<db_vars, r_frame>>

RunExtract(r) ==
    /\ runs[r].pc = "extract"
    /\ runs' = [runs EXCEPT
                   ![r].embeddings = _extract_embeddings_sync(runs[r].processed_audio).value,
                   ![r].pc = NextStage("extract")]
    /\ UNCHANGED <<db_vars, r_frame>>

RunInfer(r) ==
    /\ runs[r].pc = "infer"
    /\ LET res == _run_claude_inference_sync(RunContext(runs, r), runs[r].answers.db,
                                             user_contexts, voice_sessions,
                                             runs[r].answers.analysis)
       IN  runs' = IF res.raised
                   THEN [runs EXCEPT ![r].user_context = res.user_context,
                                     ![r].result = RunFailure("Infer"), ![r].pc = "returned"]
                   ELSE [runs EXCEPT ![r].user_context = res.user_context,
                                     ![r].prediction = res.value, ![r].pc = NextStage("infer")]
    /\ UNCHANGED <<db_vars, r_frame>>

RunSynthesize(r) ==
    /\ runs[r].pc = "synthesize"
    /\ LET res == _synthesize_voice_sync(runs[r].prediction, runs[r].answers.tts)
       IN  runs' = IF res.raised
                   THEN [runs EXCEPT ![r].result = RunFailure("Synthesize"), ![r].pc = "returned"]
                   ELSE [runs EXCEPT ![r].voice_response = res.value,
                                     ![r].pc = NextStage("synthesize")]
    /\ UNCHANGED <<db_vars, r_frame>>

RunPersist(r) ==
    /\ runs[r].pc = "persist"
    /\ LET me == runs[r]
           res == _store_results_sync(me.session_id, Get(me.user_context, "user_id", NONE),
                                      me.prediction, me.voice_response,
                                      me.processed_audio["quality_metrics"], me.answers.store_fail,
                                      voice_sessions, glucose_predictions,
                                      next_uuid, next_uuid + 1, next_uuid + 2)
       IN  /\ voice_sessions' = res.vs
           /\ glucose_predictions' = res.gp
           /\ runs' = [runs EXCEPT
                          ![r].store_result = res.value,
                          ![r].result = RunSuccess(me.session_id, me.prediction, me.voice_response),
                          ![r].stored_vs = me.stored_vs \o Appended(voice_sessions, res.vs),
                          ![r].stored_gp = me.stored_gp \o Appended(glucose_predictions, res.gp),
                          ![r].pc = NextStage("persist")]
    /\ next_uuid' = next_uuid + 3
    /\ UNCHANGED <<user_contexts, r_frame>>

\* analyze_voice, lines 168-204
RunFinish(r) ==
    /\ runs[r].pc = "returned"
    /\ LET me == runs[r]
           pred == me.result.prediction
           conf == Get(Get(pred, "glucose_assessment", EmptyDict), "confidence_score", 70)
           vrow == [id |-> me.session_id, user_id |-> Get(me.user_context, "user_id", NONE),
                    audio_file_path |-> "voice_samples/audio.wav",
                    user_context |-> me.user_context,
                    quality_metrics |-> [snr |-> 25, clarity |-> 85, spectral_quality |-> 90]]
           prow == [id |-> next_uuid, session_id |-> me.session_id, prediction_result |-> pred,
                    confidence_score |-> conf]
       IN  IF ~me.result.success
           THEN /\ runs' = [runs EXCEPT
                               ![r].response = [status |-> 500, success |-> FALSE,
                                                error |-> me.result.error],
                               ![r].pc = "responded"]
                /\ UNCHANGED <<voice_sessions, glucose_predictions, next_uuid>>
           ELSE /\ voice_sessions' = Append(voice_sessions, vrow)
                /\ glucose_predictions' = Append(glucose_predictions, prow)
                /\ next_uuid' = next_uuid + 1
                /\ runs' = [runs EXCEPT
                               ![r].response = [status |-> 200, success |-> TRUE,
                                                prediction |-> pred, confidence |-> conf,
                                                session_id |-> me.session_id],
                               ![r].stored_vs = Append(me.stored_vs, vrow.id),
                               ![r].stored_gp = Append(me.stored_gp, prow.id),
                               ![r].pc = "responded"]
    /\ UNCHANGED <<user_contexts, r_frame>>

NextRuns ==
    \E r \in RunIds :
        \/ RunReceive(r) \/ RunPreprocess(r) \/ RunExtract(r) \/ RunInfer(r)
        \/ RunSynthesize(r) \/ RunPersist(r) \/ RunFinish(r)

SpecRuns == InitRuns /\ [][NextRuns]_vars

\* --------------------------------- requests to the account routes, step by step
auth_frame ==
    <<a_vars, pc, session, response, run_vars, user_contexts, voice_sessions,
      glucose_predictions, tts_voice, e_vars, runs, computed, requests>>

InitAuth ==
    /\ AgentsIdle
    /\ pc = "idle"
    /\ session = EmptyDict
    /\ response = EmptyDict
    /\ RunIdle
    /\ user_contexts = <<>>
    /\ voice_sessions = <<>>
    /\ glucose_predictions = <<>>
    /\ next_uuid = 1
    /\ tts_voice = NONE
    /\ ExtractorIdle
    /\ runs = <<>>
    /\ users = <<>>
    /\ profiles = <<>>
    /\ flask = [c \in Browsers |-> EmptyDict]
    /\ call = [c \in Browsers |-> IdleCall]
    /\ past = [n |-> 0, overlap |-> FALSE, accounts |-> {}, changes |-> {}]
    /\ bcrypt_build \in {"truncates", "rejects"}
    /\ computed = <<>>
    /\ requests = 0

\* auth.register, lines 61-72: the checks of the route
Register(c) ==
    /\ Arrive(c)
    /\ \E email \in Emails, password \in Passwords :
        call' = [call EXCEPT ![c] =
            IF password.len < min_password
            THEN Respond(NewCall("register", email, password, NONE, "done"), 400,
                         "Password must be at least 6 characters")
            ELSE NewCall("register", email, password, NONE, "reg_select")]
    /\ past' = Counted(c)
    /\ UNCHANGED <<users, profiles, flask, bcrypt_build, next_uuid, auth_frame>>

\* register_user, lines 18-30: the select, the hash, the new id
RegisterSelect(c) ==
    /\ call[c].pc = "reg_select"
    /\ \E db \in DbOutcomes :
        LET existing_user == SelectEq(users, "email", call[c].email)
            password_hash == _hash_password(call[c].password, next_uuid)
        IN  IF db = "raises"
            THEN call' = [call EXCEPT ![c] = Respond(@, 400, "exception")] /\ UNCHANGED next_uuid
            ELSE IF Len(existing_user) > 0
            THEN call' = [call EXCEPT ![c] = Respond(@, 400, "Email already exists")]
                 /\ UNCHANGED next_uuid
            ELSE IF password_hash.raised
            THEN call' = [call EXCEPT ![c] = Respond(@, 400, "exception")] /\ UNCHANGED next_uuid
            ELSE /\ call' = [call EXCEPT ![c].pc = "reg_insert_user",
                                         ![c].password_hash = password_hash.value,
                                         ![c].user_id = next_uuid + 1]
                 /\ next_uuid' = next_uuid + 2
    /\ UNCHANGED <<users, profiles, flask, past, bcrypt_build, auth_frame>>

\* register_user, lines 31-41: the insert into users
RegisterInsertUser(c) ==
    /\ call[c].pc = "reg_insert_user"
    /\ \E db \in InsertOutcomes :
        CASE db = "raises" ->
                call' = [call EXCEPT ![c] = Respond(@, 400, "exception")] /\ UNCHANGED users
          [] db = "no_data" ->
                call' = [call EXCEPT ![c] = Respond(@, 400, "Failed to create user")]
                /\ UNCHANGED users
          [] db = "ok" ->
                /\ users' = Append(users, [id |-> call[c].user_id, email |-> call[c].email,
                                           password_hash |-> call[c].password_hash,
                                           last_login |-> NONE])
                /\ call' = [call EXCEPT ![c].pc = "reg_insert_profile"]
    /\ UNCHANGED <<profiles, flask, past, bcrypt_build, next_uuid, auth_frame>>

\* register_user, lines 44-63, then auth.register, lines 74-86
RegisterInsertProfile(c) ==
    /\ call[c].pc = "reg_insert_profile"
    /\ \E db \in DbOutcomes :
        IF db = "raises"
        THEN /\ call' = [call EXCEPT ![c] = Respond(@, 400, "exception")]
             /\ UNCHANGED <<profiles, flask, past>>
        ELSE /\ profiles' = Append(profiles, [id |-> call[c].user_id, preferences |-> EmptyDict])
             /\ flask' = [flask EXCEPT ![c] =
                            Put(Put(@, "user_id", call[c].user_id), "email", call[c].email)]
             /\ call' = [call EXCEPT ![c] = Respond(@, 200, "")]
             /\ past' = [past EXCEPT !.accounts = @ \cup
                            {[email |-> call[c].email, password |-> call[c].password,
                              id |-> call[c].user_id, at |-> call[c].seq]}]
    /\ UNCHANGED <<users, bcrypt_build, next_uuid, auth_frame>>

\* auth.login, lines 14-22
Login(c) ==
    /\ Arrive(c)
    /\ \E email \in Emails, password \in Passwords :
        call' = [call EXCEPT ![c] = NewCall("login", email, password, NONE, "login_select")]
    /\ past' = Counted(c)
    /\ UNCHANGED <<users, profiles, flask, bcrypt_build, next_uuid, auth_frame>>

\* login_user, lines 69-84: the select and the password check
LoginSelect(c) ==
    /\ call[c].pc = "login_select"
    /\ \E db \in DbOutcomes :
        LET user_result == SelectEq(users, "email", call[c].email)
        IN  IF db = "raises"
            THEN call' = [call EXCEPT ![c] = Respond(@, 401, "exception")]
            ELSE IF Len(user_result) = 0
            THEN call' = [call EXCEPT ![c] = Respond(@, 401, "Invalid email or password")]
            ELSE IF ~_verify_password(call[c].password, user_result[1].password_hash)
            THEN call' = [call EXCEPT ![c] = Respond(@, 401, "Invalid email or password")]
            ELSE call' = [call EXCEPT ![c].pc = "login_update",
                                      ![c].user_id = user_result[1].id]
    /\ UNCHANGED <<users, profiles, flask, past, bcrypt_build, next_uuid, auth_frame>>

\* login_user, lines 87-105, then auth.login, lines 24-35
LoginUpdate(c) ==
    /\ call[c].pc = "login_update"
    /\ \E db \in DbOutcomes :
        IF db = "raises"
        THEN /\ call' = [call EXCEPT ![c] = Respond(@, 401, "exception")]
             /\ UNCHANGED <<users, flask>>
        ELSE /\ users' = UpdateById(users, call[c].user_id, "last_login", "now()")
             /\ flask' = [flask EXCEPT ![c] =
                            Put(Put(@, "user_id", call[c].user_id), "email", call[c].email)]
             /\ call' = [call EXCEPT ![c] = Respond(@, 200, "")]
    /\ UNCHANGED <<profiles, past, bcrypt_build, next_uuid, auth_frame>>

\* auth.logout
Logout(c) ==
    /\ Arrive(c)
    /\ flask' = [flask EXCEPT ![c] = EmptyDict]
    /\ call' = [call EXCEPT ![c] = Respond(NewCall("logout", NONE, NONE, NONE, "done"), 200, "")]
    /\ past' = Counted(c)
    /\ UNCHANGED <<users, profiles, bcrypt_build, next_uuid, auth_frame>>

\* auth.change_password, lines 139-158: the checks of the route
ChangePassword(c) ==
    /\ Arrive(c)
    /\ \E current_password \in Passwords, new_password \in Passwords :
        LET uid == Get(flask[c], "user_id", 0)
            rec == [NewCall("change_password", NONE, current_password, new_password,
                            "chg_select") EXCEPT !.user_id = uid]
        IN  call' = [call EXCEPT ![c] =
                IF "user_id" \notin DOMAIN flask[c] THEN Respond(rec, 401, "Not authenticated")
                ELSE IF new_password.len < min_password
                THEN Respond(rec, 400, "New password must be at least 6 characters")
                ELSE rec]
    /\ past' = Counted(c)
    /\ UNCHANGED <<users, profiles, flask, bcrypt_build, next_uuid, auth_frame>>

\* UserService.change_password, lines 153-171: the select, the check, the new hash
ChangePasswordSelect(c) ==
    /\ call[c].pc = "chg_select"
    /\ \E db \in DbOutcomes :
        LET user_result == SelectEq(users, "id", call[c].user_id)
            password_hash == _hash_password(call[c].new_password, next_uuid)
        IN  IF db = "raises"
            THEN call' = [call EXCEPT ![c] = Respond(@, 400, "exception")] /\ UNCHANGED next_uuid
            ELSE IF Len(user_result) = 0
            THEN call' = [call EXCEPT ![c] = Respond(@, 400, "User not found")]
                 /\ UNCHANGED next_uuid
            ELSE IF ~_verify_password(call[c].password, user_result[1].password_hash)
            THEN call' = [call EXCEPT ![c] = Respond(@, 400, "Current password is incorrect")]
                 /\ UNCHANGED next_uuid
            ELSE IF password_hash.raised
            THEN call' = [call EXCEPT ![c] = Respond(@, 400, "exception")] /\ UNCHANGED next_uuid
            ELSE /\ call' = [call EXCEPT ![c].pc = "chg_update",
                                         ![c].password_hash = password_hash.value]
                 /\ next_uuid' = next_uuid + 1
    /\ UNCHANGED <<users, profiles, flask, past, bcrypt_build, auth_frame>>

\* UserService.change_password, lines 174-187, then auth.change_password, lines 160-163
ChangePasswordUpdate(c) ==
    /\ call[c].pc = "chg_update"
    /\ \E db \in DbOutcomes :
        IF db = "raises"
        THEN /\ call' = [call EXCEPT ![c] = Respond(@, 400, "exception")]
             /\ UNCHANGED <<users, past>>
        ELSE /\ users' = UpdateById(users, call[c].user_id, "password_hash",
                                    call[c].password_hash)
             /\ call' = [call EXCEPT ![c] = Respond(@, 200, "")]
             /\ past' = [past EXCEPT !.changes =
                            {ch \in @ : ch.id # call[c].user_id} \cup
                            {[id |-> call[c].user_id, old |-> call[c].password,
                              new |-> call[c].new_password, at |-> call[c].seq]}]
    /\ UNCHANGED <<profiles, flask, bcrypt_build, next_uuid, auth_frame>>

NextAuth ==
    \E c \in Browsers :
        \/ Register(c) \/ RegisterSelect(c) \/ RegisterInsertUser(c) \/ RegisterInsertProfile(c)
        \/ Login(c) \/ LoginSelect(c) \/ LoginUpdate(c) \/ Logout(c)
        \/ ChangePassword(c) \/ ChangePasswordSelect(c) \/ ChangePasswordUpdate(c)

SpecAuth == InitAuth /\ [][NextAuth]_vars

\* ------------------- one browser: /analyze, /results/<id>, /new-analysis
(* One browser keeps one Flask session and makes its requests one after the   *)
(* other: it logs in or out, submits the questionnaire, analyses a recording, *)
(* asks for results, starts a new analysis. A request is served in one step;  *)
(* the analysis run is the pipeline above with every stage succeeding.        *)
ClientAssessments ==
    {[glucose_assessment |-> [primary_estimate |-> "elevated", confidence_score |-> 80]],
     [glucose_assessment |-> [primary_estimate |-> "low", confidence_score |-> 60]]}
\* get_results, lines 254-276 and 301-323 (the sections other than the assessment
\* are fixed texts)
FallbackResult(confidence_score) ==
    [glucose_assessment |->
        [primary_estimate |-> "normal", estimated_range |-> "80-120 mg/dL",
         confidence_score |-> confidence_score, risk_level |-> "minimal"],
     analysis_details |-> "fixed", clinical_insights |-> "fixed", limitations |-> "fixed"]
\* new_analysis, lines 179-190: the keys popped from the session
ClearedKeys_without_result ==
    {"questionnaire", "questionnaire_responses", "recording_prompt", "health_context",
     "context_id"}
ClearedKeys ==
    {"analysis_result", "questionnaire", "questionnaire_responses", "recording_prompt",
     "health_context", "context_id"}
\* session.pop(k) for each of the keys present
PopAll(sess, keys) == Restrict(sess, DOMAIN sess \ keys)

client_frame ==
    <<a_vars, pc, run_vars, tts_voice, e_vars, runs, auth_vars>>

InitClient ==
    /\ AgentsIdle
    /\ pc = "idle"
    /\ session = EmptyDict
    /\ response = [request |-> "none", after |-> "none"]
    /\ RunIdle
    /\ user_contexts = <<>>
    /\ voice_sessions = <<>>
    /\ glucose_predictions = <<>>
    /\ next_uuid = 1
    /\ tts_voice = NONE
    /\ ExtractorIdle
    /\ runs = <<>>
    /\ WebIdle

\* a request of the browser
Request ==
    /\ requests < MaxSteps
    /\ requests' = requests + 1
Reply(name, fields) == [request |-> name, after |-> response.request] @@ fields

\* auth.login, lines 28-30, for a login that succeeds
ClientLogin ==
    /\ Request
    /\ \E u \in Users :
        session' = Put(Put(session, "user_id", u), "email", u)
    /\ response' = Reply("login", [status |-> 200])
    /\ UNCHANGED <<db_vars, computed, client_frame>>

\* auth.logout, line 46
ClientLogout ==
    /\ Request
    /\ session' = EmptyDict
    /\ response' = Reply("logout", [status |-> 200])
    /\ UNCHANGED <<db_vars, computed, client_frame>>

\* questionnaire.generate_questionnaire
GenerateQuestionnaire ==
    /\ Request
    /\ IF "user_id" \notin DOMAIN session
       THEN response' = Reply("generate", [status |-> 401]) /\ UNCHANGED session
       ELSE /\ session' = Put(session, "questionnaire", "questions")
            /\ response' = Reply("generate", [status |-> 200])
    /\ UNCHANGED <<db_vars, computed, client_frame>>

\* questionnaire.submit_questionnaire; db is whether the user_contexts insert succeeds
SubmitQuestionnaire ==
    /\ Request
    /\ IF "user_id" \notin DOMAIN session
       THEN /\ response' = Reply("submit", [status |-> 401])
            /\ UNCHANGED <<session, db_vars>>
       ELSE \E db \in DbOutcomes :
            LET responses == [q1 |-> "yes"]
                s3 == Put(Put(Put(session, "questionnaire_responses", responses),
                              "recording_prompt", "Please read the passage"),
                          "health_context", HealthContext)
                row == [id |-> next_uuid, user_id |-> session["user_id"],
                        context_data |-> [responses |-> responses,
                                          health_context |-> HealthContext]]
            IN  /\ next_uuid' = next_uuid + 1
                /\ response' = Reply("submit", [status |-> 200])
                /\ IF db = "ok"
                   THEN /\ user_contexts' = Append(user_contexts, row)
                        /\ session' = Put(s3, "context_id", next_uuid)
                   ELSE /\ session' = s3
                        /\ UNCHANGED user_contexts
                /\ UNCHANGED <<voice_sessions, glucose_predictions>>
    /\ UNCHANGED <<computed, client_frame>>

\* main.new_analysis
NewAnalysis ==
    /\ Request
    /\ session' = IF "user_id" \notin DOMAIN session THEN session
                  ELSE PopAll(session, ClearedKeys)
    /\ response' = Reply("new_analysis", [status |-> 302])
    /\ UNCHANGED <<db_vars, computed, client_frame>>

(* api.analyze_voice with an audio file, the run returning success: the       *)
(* user_context, the session id, stages 3 and 5 of the run, the handler's     *)
(* inserts, the session's analysis_result. store and insert are the storage   *)
(* calls of stage 5 and of the handler that raise.                            *)
AnalyzeVoice ==
    /\ Request
    /\ \E form_user \in {NONE, "u2"}, analysis \in ClientAssessments,
          store \in {{}, StoreCalls}, insert \in BOOLEAN :
        LET uid == IF form_user # NONE THEN form_user ELSE Get(session, "user_id", NONE)
            built == BuildUserContext(session, uid)
            sid == next_uuid
            inferred == _run_claude_inference_sync(built, "ok", user_contexts, voice_sessions,
                                                   analysis)
            pred == inferred.value
            stored == _store_results_sync(sid, uid, pred, "/tmp/voice_response.mp3",
                                          PreprocessFallback, store,
                                          voice_sessions, glucose_predictions,
                                          next_uuid + 1, next_uuid + 2, next_uuid + 3)
            conf == Get(Get(pred, "glucose_assessment", EmptyDict), "confidence_score", 70)
            vrow == [id |-> sid, user_id |-> uid,
                     audio_file_path |-> "voice_samples/audio.wav",
                     user_context |-> inferred.user_context,
                     quality_metrics |-> [snr |-> 25, clarity |-> 85, spectral_quality |-> 90]]
            prow == [id |-> next_uuid + 4, session_id |-> sid, prediction_result |-> pred,
                     confidence_score |-> conf]
        IN  /\ ~inferred.raised
            /\ voice_sessions' = IF insert THEN Append(stored.vs, vrow) ELSE stored.vs
            /\ glucose_predictions' = IF insert THEN Append(stored.gp, prow) ELSE stored.gp
            /\ next_uuid' = next_uuid + 5
            /\ session' = Put(session, "analysis_result", pred)
            /\ computed' = computed @@ (sid :> [user_id |-> uid, prediction |-> pred])
            /\ response' = Reply("analyze",
                    [status |-> 200, success |-> TRUE, prediction |-> pred, confidence |-> conf,
                     session_id |-> sid, user_context |-> built])
    /\ UNCHANGED <<user_contexts, client_frame>>

(* api.get_results. db is "raises" when a select raises (the outer except),   *)
(* insert is whether the insert of the session shortcut succeeds.             *)
GetResults ==
    /\ Request
    /\ \E sid \in DOMAIN computed \cup {voice_sessions[i].id : i \in 1..Len(voice_sessions)}
                  \cup {0},
          db \in DbOutcomes, insert \in BOOLEAN :
        LET requester == Get(session, "user_id", NONE)
            Ok(found, source) ==
                Reply("get_results",
                      [status |-> 200, success |-> TRUE, session_id |-> sid,
                       prediction |-> found, source |-> source, requester |-> requester])
            session_result == SelectEq(voice_sessions, "id", sid)
            prediction_result == SelectEq(glucose_predictions, "session_id", sid)
        IN  IF "analysis_result" \in DOMAIN session
            THEN /\ glucose_predictions' =
                        IF insert
                        THEN Append(glucose_predictions,
                                [id |-> next_uuid, session_id |-> sid,
                                 prediction_result |-> session["analysis_result"],
                                 confidence_score |->
                                    Get(Get(session["analysis_result"], "glucose_assessment",
                                            EmptyDict), "confidence_score", 50)])
                        ELSE glucose_predictions
                 /\ next_uuid' = next_uuid + 1
                 /\ response' = Ok(session["analysis_result"], "session_storage")
            ELSE /\ UNCHANGED <<glucose_predictions, next_uuid>>
                 /\ response' =
                        IF db = "raises"
                        THEN Reply("get_results", [status |-> 500, success |-> FALSE,
                                                   session_id |-> sid, requester |-> requester])
                        ELSE IF Len(session_result) = 0
                        THEN Ok(FallbackResult(65), "fallback")
                        ELSE IF requester # NONE /\ session_result[1].user_id # requester
                        THEN Reply("get_results", [status |-> 403, success |-> FALSE,
                                                   session_id |-> sid, requester |-> requester])
                        ELSE IF Len(prediction_result) = 0
                        THEN Ok(FallbackResult(70), "fallback")
                        ELSE Ok(prediction_result[1].prediction_result, "database")
    /\ UNCHANGED <<session, user_contexts, voice_sessions, computed, client_frame>>

NextClient ==
    \/ ClientLogin \/ ClientLogout \/ GenerateQuestionnaire \/ SubmitQuestionnaire
    \/ NewAnalysis \/ AnalyzeVoice \/ GetResults

SpecClient == InitClient /\ [][NextClient]_vars

\* ===================================================== claims on the agents
\* the span of a text from its first "{" to its last "}", when there is one
HasSpan(t) == \E i, j \in 1..Len(t) : i < j /\ t[i] = "{" /\ t[j] = "}"
SpanOf(t) ==
    SubSeq(t, Min({i \in 1..Len(t) : t[i] = "{"}), Max({j \in 1..Len(t) : t[j] = "}"}))
\* the service answered with a text whose span is a JSON object
AnswersObject(svc) ==
    ~svc.raises /\ HasSpan(svc.text) /\ ~json_loads(SpanOf(svc.text), svc.body).raised
AnsweredObject(svc) == json_loads(SpanOf(svc.text), svc.body).value
\* service error, empty response, no span, or a span that is not JSON
FailurePath(svc) == ~AnswersObject(svc)
\* the assessment the claims expect for a parsed object: absent sections become
\* empty objects, absent estimate fields get their defaults, the rest is unchanged
ExpectedAssessment(obj) ==
    [k \in DOMAIN obj \cup Sections |->
        IF k = "glucose_assessment"
        THEN LET ga == IF k \in DOMAIN obj THEN obj[k] ELSE EmptyDict
             IN  IF ~IsDict(ga) THEN ga
                 ELSE [f \in DOMAIN ga \cup {"primary_estimate", "confidence_score"} |->
                          IF f \in DOMAIN ga THEN ga[f]
                          ELSE IF f = "primary_estimate" THEN "normal" ELSE 50]
        ELSE IF k \in DOMAIN obj THEN obj[k] ELSE EmptyDict]
FullyPopulated(a) ==
    /\ Sections \subseteq DOMAIN a
    /\ IsDict(a["glucose_assessment"])
    /\ GaKeys \subseteq DOMAIN a["glucose_assessment"]

\* C6: every failure path of the Inference Gateway (service error, empty or None
\* response, no '{...}' span, unparsable JSON) returns the one fallback assessment
\* with primary_estimate "normal" and confidence_score 0.3, in parse_response and
\* in AnthropicService.analyze_voice_data.
C6_SingleFallback ==
    (a_op \in {"parse_response", "analyze_voice_data"} /\ FailurePath(a_in.svc)) =>
        /\ a_out = AgentFallback
        /\ a_out["glucose_assessment"]["primary_estimate"] = "normal"
        /\ a_out["glucose_assessment"]["confidence_score"] = 30

\* C7: with non-empty embeddings and user context, when the service answers with a
\* text containing a well-formed JSON object, analyze_glucose returns the validated
\* parsed object as glucose_prediction and the service text as raw_claude_response,
\* not the fallback.
C7_ReturnsParsedObject ==
    (/\ a_op = "analyze_glucose"
     /\ ~EmbFalsy(a_in.embeddings) /\ Truthy(a_in.user_context)
     /\ AnswersObject(a_in.svc)
     /\ ("glucose_assessment" \in DOMAIN AnsweredObject(a_in.svc)
            => IsDict(AnsweredObject(a_in.svc)["glucose_assessment"]))) =>
        /\ a_out["glucose_prediction"] = ExpectedAssessment(AnsweredObject(a_in.svc))
        /\ a_out["raw_claude_response"] = Str(a_in.svc.text)

C9_FullyPopulated ==
    /\ a_op \in {"parse_response", "analyze_voice_data"} => FullyPopulated(a_out)
    /\ a_op = "analyze_glucose" => FullyPopulated(a_out["glucose_prediction"])

\* C10: analyze_glucose with empty/missing embeddings or user context returns a
\* result with an "error" field and makes no request to the reasoning service; with
\* both present (service outage and malformed response included) the result has no
\* "error" field.
C10_TypedInputFailure ==
    a_op = "analyze_glucose" =>
        IF EmbFalsy(a_in.embeddings) \/ ~Truthy(a_in.user_context)
        THEN "error" \in DOMAIN a_out /\ a_calls = 0
        ELSE "error" \notin DOMAIN a_out

C10_Witness ==
    /\ a_op = "analyze_glucose"
    /\ ~EmbFalsy(a_in.embeddings) /\ a_in.user_context = EmptyDict
    /\ "error" \in DOMAIN a_out /\ a_calls = 0

\* =================================================== claims on the pipeline
StageOrder == <<"Preprocess", "Extract", "Infer", "Synthesize", "Persist">>
RunReturned == pc \in {"returned", "responded"} /\ "success" \in DOMAIN result

\* C1: in a run of run_glucose_analysis_sync the stages are invoked in the order
\* Preprocess, Extract, Infer, Synthesize, Persist, each at most once and each only
\* after the previous one returned its output; a run that returns success=True has
\* invoked all five.
C1_StagesInOrder ==
    /\ Len(stages) <= Len(StageOrder)
    /\ stages = SubSeq(StageOrder, 1, Len(stages))
    /\ Len(stages) >= 2 => processed_audio # EmptyDict
    /\ Len(stages) >= 3 => embeddings # NoEmbedding
    /\ Len(stages) >= 4 => prediction # EmptyDict
    /\ (RunReturned /\ result.success) => stages = StageOrder

C1_Witness ==
    /\ pc = "responded" /\ response.success
    /\ stages = StageOrder

\* C2: once Infer has produced an assessment, a failing storage call (in Persist or
\* among the handler's own inserts) does not discard it: the run returns success=True
\* with that prediction and the handler answers success=True with the same prediction.
C2_StorageFailureKeepsPrediction ==
    /\ (RunReturned /\ "persist" \in faults) =>
          result.success /\ result.prediction = prediction
    /\ (pc = "responded" /\ faults \cap {"persist", "handler"} # {}) =>
          /\ response.success /\ response.status = 200
          /\ response.prediction = prediction
          /\ prediction # EmptyDict

C2_Witness ==
    /\ pc = "responded"
    /\ {"persist", "handler"} \subseteq faults
    /\ store_result.success = FALSE
    /\ response.success
    /\ response.prediction = prediction
    /\ "glucose_assessment" \in DOMAIN prediction
    /\ IsDict(prediction["glucose_assessment"])
    /\ Get(prediction["glucose_assessment"], "primary_estimate", "normal") = "elevated"

\* what a result says beyond the analysis itself
StorageIndication(r) ==
    Restrict(r, DOMAIN r \ {"session_id", "prediction", "voice_response", "confidence", "status"})

\* C3: when a storage call of the Persist stage fails, the result returned by the run
\* and the handler's response carry an indication of it: they differ, outside the
\* analysis fields, from those of a run whose storage succeeded.
C3_StorageFailureReported ==
    /\ (RunReturned /\ "persist" \in faults) => StorageIndication(result) # [success |-> TRUE]
    /\ (pc = "responded" /\ "persist" \in faults) => StorageIndication(response) # [success |-> TRUE]

\* C4: an error inside stages 1-4 never aborts the run: every later stage is still
\* executed and the run returns success=True with an assessment.
C4_StagesNeverAbort ==
    RunReturned =>
        /\ result.success
        /\ stages = StageOrder
        /\ result.prediction # EmptyDict

\* C5: when every call of the voice-synthesis service fails, the run still returns the
\* assessment and the script text with a null audio reference, and
\* synthesize_response returns voice_response=None with a non-empty voice_script.
C5_ScriptSurvivesSynthesisFailure ==
    /\ (RunReturned /\ result.success /\ "tts" \in faults) =>
          /\ result.prediction # EmptyDict
          /\ result.voice_response = NONE
          /\ DOMAIN result \cap {"voice_script", "script", "response_text"} # {}
    /\ (a_op = "synthesize_response" /\ a_in.tts # "ok") =>
          /\ a_out.voice_response = NONE
          /\ a_out.voice_script # [template |-> NONE]

\* =============================================== claims on the voice profile
\* an assessment from which the claimed rule determines a profile
HasProfileFields(a) ==
    /\ "glucose_assessment" \in DOMAIN a
    /\ IsDict(a["glucose_assessment"])
    /\ {"risk_level", "confidence_score"} \subseteq DOMAIN a["glucose_assessment"]
    /\ \/ a["glucose_assessment"]["risk_level"] \in {"high", "critical"}
       \/ a["glucose_assessment"]["confidence_score"] # NonNumeric
\* the voice the claimed rule selects
ClaimedVoice(a) ==
    LET ga == a["glucose_assessment"]
    IN  IF ga["risk_level"] \in {"high", "critical"} THEN voice_ids.serious_medical_voice
        ELSE IF ga["confidence_score"] > 70 THEN voice_ids.confident_assistant
        ELSE voice_ids.cautious_assistant
\* the assessment SynthesizeResponse handed to the synthesizer
SynthesizedAssessment ==
    parse_response(IF a_in.svc.raises THEN PyNone ELSE Str(a_in.svc.text), a_in.svc.body)

\* C11: the voice requested from the text-to-speech service is the one selected from
\* the assessment: serious for risk_level high/critical whatever the confidence,
\* else confident for confidence_score > 0.7, else cautious; in the agent's
\* synthesize_response and in stage 4 of the pipeline.
C11_VoiceFromAssessment ==
    /\ (a_op = "synthesize_response" /\ HasProfileFields(SynthesizedAssessment)) =>
          tts_voice = ClaimedVoice(SynthesizedAssessment)
    /\ (tts_voice # NONE /\ a_op = "none" /\ HasProfileFields(prediction)) =>
          tts_voice = ClaimedVoice(prediction)

\* ============================================ claims on the context scorer
\* how many entries of a list are in a group, counting repetitions
InGroup(l, g) == Cardinality({i \in DOMAIN l : l[i] \in g})

\* C12: an empty or missing symptom list gives Asymptomatic / Neutral / Low; a
\* non-empty list gives Hyperglycemic when strictly more of its symptoms are in the
\* hyper group than in the hypo group, Hypoglycemic when strictly more are in the
\* hypo group, Mixed on a tie; Neutral is returned only for an empty list.
C12_DirectionFromCounts ==
    a_op = "analyze_symptom_constellation" =>
        LET l == a_in.symptoms.list
            hyper == InGroup(l, {"Unusual thirst or dry mouth", "Frequent urination", "Blurred vision"})
            hypo == InGroup(l, {"Shakiness or tremors", "Confusion or difficulty concentrating"})
        IN  /\ (a_in.symptoms.none \/ l = <<>>) =>
                  a_out = [cluster_type |-> "Asymptomatic", direction |-> "Neutral", urgency |-> "Low"]
            /\ (~a_in.symptoms.none /\ l # <<>>) =>
                  a_out.direction = IF hyper > hypo THEN "Hyperglycemic"
                                    ELSE IF hypo > hyper THEN "Hypoglycemic" ELSE "Mixed"
            /\ a_out.direction = "Neutral" => (a_in.symptoms.none \/ l = <<>>)

\* a repeated hyper symptom outweighs one hypo symptom; only non-specific ones tie
C12_Witness ==
    /\ a_op = "analyze_symptom_constellation"
    /\ a_in.symptoms.list = <<"Blurred vision", "Shakiness or tremors", "Blurred vision">>
    /\ a_out.direction = "Hyperglycemic"

\* C13: urgency is Low for 0-1 symptoms, Moderate for 2, High for 3 or more, and High
\* whenever "Confusion or difficulty concentrating" is in the list; the list
\* ["Shakiness or tremors", "Confusion or difficulty concentrating"] gives
\* Hypoglycemic and High.
C13_UrgencyFromCount ==
    a_op = "analyze_symptom_constellation" =>
        LET l == a_in.symptoms.list
            confusion == \E i \in DOMAIN l : l[i] = "Confusion or difficulty concentrating"
        IN  /\ confusion => a_out.urgency = "High"
            /\ (~confusion /\ Len(l) <= 1) => a_out.urgency = "Low"
            /\ (~confusion /\ Len(l) = 2) => a_out.urgency = "Moderate"
            /\ Len(l) >= 3 => a_out.urgency = "High"
            /\ l = <<"Shakiness or tremors", "Confusion or difficulty concentrating">> =>
                  a_out.direction = "Hypoglycemic" /\ a_out.urgency = "High"

C13_Witness ==
    /\ a_op = "analyze_symptom_constellation"
    /\ a_in.symptoms.list = <<"Shakiness or tremors", "Confusion or difficulty concentrating">>
    /\ a_out = [cluster_type |-> "Hypoglycemia Cluster", direction |-> "Hypoglycemic", urgency |-> "High"]

\* C14: determine_metabolic_phase returns, for None, "" and every string, a record
\* with the fields phase, expected_pattern, is_critical_window, special_notes; None
\* and "" give phase Unknown outside the critical window; "1-2 hours ago" gives Peak
\* Postprandial inside it; no other input is in the critical window.
C14_MetabolicPhaseTotal ==
    a_op = "determine_metabolic_phase" =>
        /\ DOMAIN a_out = {"phase", "expected_pattern", "is_critical_window", "special_notes"}
        /\ a_in.meal_timing \in {NONE, ""} =>
              a_out.phase = "Unknown" /\ a_out.is_critical_window = FALSE
        /\ a_in.meal_timing = "1-2 hours ago" =>
              a_out.phase = "Peak Postprandial" /\ a_out.is_critical_window = TRUE
        /\ a_out.is_critical_window = TRUE => a_in.meal_timing = "1-2 hours ago"

\* a label that differs from a table key only in case is unrecognized
C14_Witness ==
    /\ a_op = "determine_metabolic_phase"
    /\ a_in.meal_timing = "1-2 Hours Ago"
    /\ a_out.phase = "Unknown" /\ a_out.is_critical_window = FALSE

\* ========================================== claims on the prompt composer
\* the sections of the user prompt
SectionsOf(prompt) == {prompt.user[i].section : i \in DOMAIN prompt.user}
\* the symptom list the prompt is built for: the last non-empty one among the
\* user context's, its responses object's and the top-level one
ResolvedSymptoms(r) ==
    LET c == IF "user_context" \in DOMAIN r THEN r["user_context"] ELSE EmptyDict
        q == IF "responses" \in DOMAIN c THEN c["responses"] ELSE EmptyDict
        Pick(d, otherwise) ==
            IF "symptoms" \in DOMAIN d /\ d["symptoms"] # <<>> THEN d["symptoms"] ELSE otherwise
    IN  Pick(r, Pick(q, Pick(c, <<>>)))
\* a transcript is available: a non-empty 'conversation', or turns in the user context
TranscriptAvailable(r) ==
    \/ "conversation" \in DOMAIN r /\ r["conversation"] # <<>>
    \/ /\ "user_context" \in DOMAIN r
       /\ "conversation_history" \in DOMAIN r["user_context"]
       /\ r["user_context"]["conversation_history"] # <<>>

ModelEmbedding == <<[n |-> 512, zero |-> FALSE]>>
FallbackEmbedding == <<[n |-> 62, zero |-> FALSE], [n |-> 450, zero |-> TRUE]>>
EntriesOf(v) ==
    IF Len(v) = 0 THEN 0 ELSE IF Len(v) = 1 THEN v[1].n ELSE v[1].n + v[2].n

\* C16: every embedding has exactly 512 entries: the model's hidden vector cut to its
\* first 512, the 62 fallback features followed by 450 zeros, and the vector of
\* _extract_embeddings_sync.
C16_EmbeddingLength ==
    /\ \A t \in Threads :
          ex[t].pc = "done" =>
              /\ EntriesOf(ex[t].ret) = 512
              /\ ex[t].ret \in {ModelEmbedding, FallbackEmbedding}
    /\ embeddings # NoEmbedding => ~embeddings.is_none /\ embeddings.len = 512

C16_Witness ==
    /\ ex[1].pc = "done" /\ ex[1].ret = FallbackEmbedding
    /\ ex[2].pc = "done" /\ ex[2].ret = ModelEmbedding
    /\ embeddings.len = 512

\* C17: a call in which loading the model or the processor failed, or in which the
\* model inference raised, returns the fallback features; with calls that do not
\* overlap, a failed load leaves model and processor both unset, so that the next
\* call loads again or takes the fallback path.
C17_LoadFailureFallsBack ==
    \A t \in callers :
        /\ (ex[t].pc = "done" /\ ex[t].infer_failed) => ex[t].ret = FallbackEmbedding
        /\ callers = {t} =>
              /\ (ex[t].pc = "done" /\ ex[t].load_failed) => ex[t].ret = FallbackEmbedding
              /\ (ex[t].load_failed /\ ex[t].pc \in {"check", "fallback", "done", "idle"}) =>
                    model = NONE /\ processor = NONE

\* the second call of a single caller fails to load the processor and falls back
C17_Witness ==
    /\ callers = {1}
    /\ ex[1].calls = 1 /\ ex[1].pc = "done" /\ ex[1].load_failed
    /\ ex[1].ret = FallbackEmbedding
    /\ model = NONE /\ processor = NONE

\* C18: whatever the interleaving of the calling threads, the model and its processor
\* are loaded at most once, at most one thread is inside the loading code at a time,
\* and once both references are set neither is assigned again.
C18_LoadedOnceUnderGuard ==
    /\ loads <= 1
    /\ Cardinality({t \in callers :
            ex[t].pc \in {"load_model", "load_processor", "except_model", "except_processor"}}) <= 1
    /\ ~reassigned

\* ========================================== claims on the quality scoring
\* C20: when the computation of the quality scores fails, the assessor does not
\* raise and returns the default metrics SNR 20, clarity 70, spectral_quality 75:
\* in AudioProcessorAgent.process_audio and in SupabaseManager._assess_audio_quality.
C20_QualityErrorGivesDefaults ==
    (a_op \in {"process_audio", "_assess_audio_quality"} /\ a_in.computation = "error") =>
        /\ ~a_out.raised
        /\ LET m == IF a_op = "process_audio" THEN a_out.value["quality_metrics"] ELSE a_out.value
           IN  m.snr = 20 /\ m.clarity = 70 /\ m.spectral_quality = 75

\* the quality record a call returned
ReturnedMetrics ==
    IF a_op = "process_audio" THEN a_out.value["quality_metrics"] ELSE a_out.value
InScoreRange(m) == m.clarity \in 0..100 /\ m.spectral_quality \in 0..100

\* C21: every quality record handed to the inference stage has integer clarity and
\* spectral_quality within 0..100: the records the assessors return for every mean
\* centroid and bandwidth, the records the pipeline draws, and the default records.
C21_ScoresInRange ==
    /\ (a_op \in {"process_audio", "_assess_audio_quality"} /\ ~a_out.raised) =>
            InScoreRange(ReturnedMetrics)
    /\ \A q \in QualityDraws \cup {PreprocessFallback} : InScoreRange(q)
\* a bandwidth whose unclamped score is negative was scored
C21_Witness ==
    /\ a_op = "process_audio" /\ ~a_out.raised
    /\ IntQuot(100 * 100 - a_in.measured.bandwidth, 100) < 0
    /\ ReturnedMetrics.spectral_quality = 0
    /\ a_in.measured.centroid = 8000 /\ ReturnedMetrics.clarity = 100

\* ========================================== claims on concurrent requests
\* what request r returns and stores when it is served alone, from the tables as
\* they were before any request, with the same answers of its collaborators
SoloInfer(r) ==
    _run_claude_inference_sync(runs[r].ctx0, runs[r].answers.db, user_contexts, SeedSessions,
                               runs[r].answers.analysis)
SoloVoice(r) == _synthesize_voice_sync(SoloInfer(r).value, runs[r].answers.tts)
SoloResult(r) ==
    IF SoloInfer(r).raised THEN [success |-> FALSE, error |-> "Infer"]
    ELSE IF SoloVoice(r).raised THEN [success |-> FALSE, error |-> "Synthesize"]
    ELSE [success |-> TRUE, session_id |-> runs[r].session_id,
          prediction |-> SoloInfer(r).value, voice_response |-> SoloVoice(r).value,
          confidence |->
              IF "confidence_score" \in DOMAIN SoloInfer(r).value["glucose_assessment"]
              THEN SoloInfer(r).value["glucose_assessment"]["confidence_score"] ELSE 50]
\* a stored row without the ids the database or the id generator gave it
Content(row) == [k \in DOMAIN row \ {"id", "session_id", "prediction_id"} |-> row[k]]
RowWithId(table, id) == table[CHOOSE i \in DOMAIN table : table[i].id = id]
StoredSessions(r) ==
    [i \in DOMAIN runs[r].stored_vs |-> Content(RowWithId(voice_sessions, runs[r].stored_vs[i]))]
StoredPredictions(r) ==
    [i \in DOMAIN runs[r].stored_gp |->
        Content(RowWithId(glucose_predictions, runs[r].stored_gp[i]))]
SoloSessions(r) ==
    LET own == [user_id |-> runs[r].ctx0["user_id"], audio_file_path |-> SoloVoice(r).value,
                user_context |-> EmptyDict, quality_metrics |-> runs[r].answers.quality]
        handler == [user_id |-> runs[r].ctx0["user_id"],
                    audio_file_path |-> "voice_samples/audio.wav",
                    user_context |-> SoloInfer(r).user_context,
                    quality_metrics |-> [snr |-> 25, clarity |-> 85, spectral_quality |-> 90]]
    IN  IF runs[r].pc = "responded" THEN <<own, handler>> ELSE <<own>>
SoloPredictions(r) ==
    LET pred == SoloInfer(r).value
        own == [prediction_result |-> pred, confidence_score |-> SoloResult(r).confidence]
        handler == [prediction_result |-> pred,
                    confidence_score |->
                        IF "confidence_score" \in DOMAIN pred["glucose_assessment"]
                        THEN pred["glucose_assessment"]["confidence_score"] ELSE 70]
    IN  IF runs[r].pc = "responded" THEN <<own, handler>> ELSE <<own>>

\* C19: under every interleaving of two requests, what a request returns, the
\* user_context it ends with and the rows it stored are what it returns, ends with
\* and stores when served alone with the same answers of its collaborators; before
\* its own Infer stage its user_context is as the handler built it.
C19_RunsIndependent ==
    \A r \in DOMAIN runs :
        /\ runs[r].pc \in {"receive", "preprocess", "extract", "infer"} =>
              runs[r].user_context = runs[r].ctx0
        /\ runs[r].pc \in {"synthesize", "persist", "returned", "responded"} =>
              runs[r].user_context = SoloInfer(r).user_context
        /\ runs[r].pc \in {"returned", "responded"} =>
              /\ runs[r].result = SoloResult(r)
              /\ runs[r].result.success =>
                    /\ StoredSessions(r) = SoloSessions(r)
                    /\ StoredPredictions(r) = SoloPredictions(r)
              /\ ~runs[r].result.success => runs[r].stored_vs = <<>> /\ runs[r].stored_gp = <<>>

\* two requests of different users, the second received later and stored first
C19_Witness ==
    /\ DOMAIN runs = RunIds
    /\ runs[1].pc = "responded" /\ runs[2].pc = "responded"
    /\ runs[1].ctx0["user_id"] # runs[2].ctx0["user_id"]
    /\ runs[1].session_id < runs[2].session_id
    /\ runs[1].response.success /\ runs[2].response.success
    /\ runs[1].response.prediction # runs[2].response.prediction
    /\ voice_sessions[2].id = runs[2].stored_vs[1]
    /\ voice_sessions[Len(voice_sessions)].id = runs[1].session_id

\* ========================================== claims on what an analysis stores
\* C28: after a successful POST /api/v1/analyze in which every storage call
\* succeeded, the database holds exactly one new voice_sessions row and exactly one
\* new glucose_predictions row, both under the session_id returned to the caller.
C28_OneRecordPerAnalysis ==
    (pc = "responded" /\ response.status = 200 /\ faults \cap {"persist", "handler"} = {}) =>
        /\ Len(voice_sessions) = 1
        /\ Len(glucose_predictions) = 1
        /\ voice_sessions[1].id = response.session_id
        /\ glucose_predictions[1].session_id = response.session_id

\* ========================================== claims on the account routes
\* the registrations that succeeded for an email, the last successful change of a
\* user's password: those answered before request number seq arrived
AccountsOf(email, seq) == {acc \in past.accounts : acc.email = email /\ acc.at < seq}
ChangesOf(id, seq) == {ch \in past.changes : ch.id = id /\ ch.at < seq}
\* browser c has the response of a request of kind op that no storage error cut short
Answered(c, op) ==
    call[c].op = op /\ call[c].pc = "done" /\ call[c].result.error # "exception"

\* C22: for requests served one after the other: after a registration with a
\* password of at least 6 characters succeeded, a login with the same email and
\* password succeeds and sets the session's user_id to the registered id; a later
\* registration of the same email fails with 'Email already exists' and leaves
\* that login working.
C22_RegisterThenLogin ==
    ~past.overlap =>
        \A c \in Browsers :
            /\ Answered(c, "login") =>
                \A acc \in AccountsOf(call[c].email, call[c].seq) :
                    (acc.password = call[c].password /\ ChangesOf(acc.id, call[c].seq) = {}) =>
                        /\ call[c].result.success
                        /\ "user_id" \in DOMAIN flask[c]
                        /\ flask[c]["user_id"] = acc.id
            /\ (Answered(c, "register") /\ call[c].password.len >= min_password) =>
                \A acc \in AccountsOf(call[c].email, call[c].seq) :
                        /\ ~call[c].result.success
                        /\ call[c].result.error = "Email already exists"
\* a registration, a refused second registration of the email, then a login
C22_Witness ==
    /\ ~past.overlap
    /\ \E c, d \in Browsers :
        /\ Answered(c, "login") /\ call[c].result.success
        /\ Answered(d, "register") /\ call[d].result.error = "Email already exists"
        /\ call[d].email = call[c].email /\ call[d].seq < call[c].seq
        /\ \E acc \in AccountsOf(call[c].email, call[d].seq) :
            acc.password = call[c].password /\ flask[c]["user_id"] = acc.id

\* the stored hashes, by user id
StoredHashes(table) == {<<table[i].id, table[i].password_hash>> : i \in 1..Len(table)}
\* every step of a change-password request except its successful update leaves
\* the stored hashes as they were
FailureKeepsHash ==
    \A c \in Browsers :
        (call'[c] # call[c] /\ call'[c].op = "change_password"
            /\ ~(call'[c].pc = "done" /\ call'[c].result.success)) =>
                StoredHashes(users') = StoredHashes(users)
\* the logins after a successful change; differ(old, new) says when the old
\* password is expected to be refused
LoginAfterChange(differ(_, _)) ==
    ~past.overlap =>
        \A c \in Browsers :
            Answered(c, "login") =>
                \A acc \in AccountsOf(call[c].email, call[c].seq) :
                    \A ch \in ChangesOf(acc.id, call[c].seq) :
                    /\ call[c].password = ch.new => call[c].result.success
                    /\ (call[c].password = ch.old /\ differ(ch.old, ch.new)) =>
                            ~call[c].result.success
Always(old, new) == TRUE
DifferWithinLimit(old, new) == old.head # new.head

\* C25 as stated: a failed change_password leaves the stored hash unchanged; after a
\* successful one, login with the new password succeeds and login with the old
\* password fails.
C25_Original ==
    [][FailureKeepsHash]_vars /\ [](LoginAfterChange(Always))
\* C25: a failed change_password (wrong current password, new password shorter
\* than 6, unauthenticated session, storage error) leaves the stored hash
\* unchanged; after a successful one, login with the new password succeeds, and
\* login with the old password fails when the old and the new password differ
\* within their first 72 bytes.
C25_ChangePassword ==
    [][FailureKeepsHash]_vars /\ [](LoginAfterChange(DifferWithinLimit))
\* a login with the old password was refused after a change to a different one
C25_Witness ==
    /\ ~past.overlap
    /\ \E c \in Browsers :
        /\ Answered(c, "login") /\ ~call[c].result.success
        /\ \E acc \in AccountsOf(call[c].email, call[c].seq) :
            \E ch \in ChangesOf(acc.id, call[c].seq) :
                call[c].password = ch.old /\ ch.old.head # ch.new.head

\* C29: under any interleaving of register_user calls there is at most one users
\* row per email, and at most one registration of an email returns success.
C29_OneAccountPerEmail ==
    \A email \in Emails :
        /\ Len(SelectEq(users, "email", email)) <= 1
        /\ Cardinality(AccountsOf(email, MaxRequests + 1)) <= 1

\* C30: a registration that returns success=False leaves no users row and no
\* profiles row of its own behind; one that returns success=True leaves a users row
\* and a profiles row with the same id.
C30_RegisterAllOrNothing ==
    \A c \in Browsers :
        (call[c].op = "register" /\ call[c].pc = "done") =>
            LET mine(table) == Len(SelectEq(table, "id", call[c].user_id))
            IN  IF call[c].result.success
                THEN mine(users) = 1 /\ mine(profiles) = 1
                ELSE mine(users) = 0 /\ mine(profiles) = 0

\* ========================================== claims on the results routes
\* the browser has the answer of a GET /api/v1/results/<id> that returned a prediction
GotResults == response.request = "get_results" /\ response.status = 200

\* C23: get_results returns the stored prediction of a voice session only to the
\* user who owns it: a requester who is not the session's user_id, or who has no
\* user_id in the Flask session, is not given the prediction read from the
\* glucose_predictions rows of that session.
C23_OnlyOwnerReads ==
    (GotResults /\ response.source = "database") =>
        response.requester = SelectEq(voice_sessions, "id", response.session_id)[1].user_id

\* C26: GET /api/v1/results/<session_id> answers success with a prediction only for
\* an id that an analysis returned, and the prediction is the assessment computed
\* by that analysis.
C26_ReturnsComputedAssessment ==
    GotResults =>
        /\ response.session_id \in DOMAIN computed
        /\ response.prediction = computed[response.session_id].prediction

\* C27: GET /api/v1/results/<session_id> is read-only: a request leaves the
\* glucose_predictions and the voice_sessions rows as they were.
C27_GetResultsReadOnly ==
    [][(requests' # requests /\ response'.request = "get_results") =>
            UNCHANGED <<voice_sessions, glucose_predictions>>]_vars

\* ========================================== claims on /new-analysis
C24_Keys ==
    {"analysis_result", "questionnaire", "questionnaire_responses", "recording_prompt",
     "health_context", "context_id"}
Identity(sess) == Restrict(sess, DOMAIN sess \cap {"user_id", "email"})
\* the session after /new-analysis and the answers to the request that follows it
AfterNewAnalysis(anyone) ==
    (anyone \/ "user_id" \in DOMAIN session) =>
        /\ response.request = "new_analysis" => DOMAIN session \cap C24_Keys = {}
        /\ (GotResults /\ response.after = "new_analysis") =>
                response.source # "session_storage"
        /\ (response.request = "analyze" /\ response.after = "new_analysis") =>
                /\ response.user_context["diabetes_status"] = "Unknown"
                /\ response.user_context["meal_timing"] = "Unknown"
                /\ response.user_context["symptoms"] = <<>>
NewAnalysisKeepsIdentity ==
    (requests' # requests /\ response'.request = "new_analysis") =>
        Identity(session') = Identity(session)

\* C24 as stated: after /new-analysis the session holds none of analysis_result,
\* questionnaire, questionnaire_responses, recording_prompt, health_context,
\* context_id, with user_id and email unchanged; the next GET results is not
\* answered from session storage and the next /analyze builds its user_context
\* with "Unknown" diabetes_status and meal_timing and no symptoms.
C24_Original ==
    [][NewAnalysisKeepsIdentity]_vars /\ [](AfterNewAnalysis(TRUE))
\* C24: the same, for a /new-analysis requested with a user_id in the session.
C24_NewAnalysisClears ==
    [][NewAnalysisKeepsIdentity]_vars /\ [](AfterNewAnalysis(FALSE))
\* a logged-in browser read results after /new-analysis and got the stored ones
C24_Witness ==
    /\ GotResults /\ response.after = "new_analysis"
    /\ "user_id" \in DOMAIN session
    /\ response.source = "database"

====
